---------------------------- MODULE Spec2Model ----------------------------
(***************************************************************************)
(* A model of the recursive-descent parser of 9cc (src/parse.c).           *)
(*                                                                         *)
(* The parser's file-scope variables (tokens, pos, env, prog, lvars,       *)
(* breaks, continues, switches, nlabel) are the fields of the record st.   *)
(* Every C function of parse.c is an operator of the same name that takes  *)
(* the state record and returns the new state record together with the     *)
(* function's return value.  Heap objects whose identity matters (Env,     *)
(* Map, Type, Var, and the Vectors that lvars points to, in st.vecs) live  *)
(* in sequences of st and are addressed by index, index 0 being the NULL   *)
(* pointer.  AST nodes are records that embed                              *)
(* their children and carry the allocation number id, by which             *)
(* node->target and the break/continue/switch stacks refer to them.        *)
(*                                                                         *)
(* bad_token() ends the process; the model records the message in st.err   *)
(* and every later step of the parser is then a no-op.                     *)
(***************************************************************************)
EXTENDS Integers, Sequences, FiniteSets, TLC

VARIABLES
  st,     \* the parser's file-scope state
  pc,     \* where the caller of the parser is: "idle", "parsing", "done"
  ret,    \* the value last returned to the caller
  input,  \* the description of the token sequence handed to parse()
  ghost   \* history kept for the properties only

vars == <<st, pc, ret, input, ghost>>

---------------------------------------------------------------------------
(* Tokens (produced by the lexer, read-only here).                         *)

Tok(ty) == [ty |-> ty, name |-> "", val |-> 0]
Id(name) == [ty |-> "TK_IDENT", name |-> name, val |-> 0]
Num(val) == [ty |-> "TK_NUM", name |-> "", val |-> val]
Str(s) == [ty |-> "TK_STR", name |-> s, val |-> Len(s) + 1]
EofTok == Tok("TK_EOF")

\* A sequence of token kinds as tokens.
Toks(tys) == [i \in 1..Len(tys) |-> Tok(tys[i])]

---------------------------------------------------------------------------
(* Return values: a state, a value, and whether the state is not failed.   *)

R(s, v) == [st |-> s, v |-> v, ok |-> s.err = ""]

NULL == 0

Failed(s) == s.err # ""

---------------------------------------------------------------------------
(* util.c: vectors, maps, types, roundup, diagnostics.                     *)

NullVec == [null |-> TRUE, data |-> <<>>]
new_vec == [null |-> FALSE, data |-> <<>>]

\* bad_token(): the first fatal error ends the pass.
bad_token(s, t, msg) == IF Failed(s) THEN s ELSE [s EXCEPT !.err = msg]

\* assert(): a failed assertion aborts the process.
assert_fail(s, what) == IF Failed(s) THEN s ELSE [s EXCEPT !.err = "assert: " \o what]

\* warn_token(): records the warning, parsing continues.
warn_token(s, t, msg) == [s EXCEPT !.warns = Append(@, msg)]

\* format(".L.str%d", n)
format_label(n) == ".L.str" \o ToString(n)

\* new_map(): a fresh empty map object; the value returned is its address.
new_map(s) ==
  R([s EXCEPT !.maps = Append(@, [keys |-> <<>>, vals |-> <<>>])], Len(s.maps) + 1)

\* map_put(map, key, val): appends the pair.
map_put(s, m, key, val) ==
  IF Failed(s) THEN s
  ELSE [s EXCEPT !.maps[m] = [keys |-> Append(@.keys, key), vals |-> Append(@.vals, val)]]

\* map_get(map, key): the value put last under key, NULL when there is none.
map_get(s, m, key) ==
  LET mp == s.maps[m]
      hits == {i \in 1..Len(mp.keys) : mp.keys[i] = key}
  IN IF hits = {} THEN NULL
     ELSE mp.vals[CHOOSE i \in hits : \A j \in hits : j <= i]

\* The type int is 32 bits wide; arithmetic that leaves its range wraps
\* around.
IntMax == 2147483647
IntMin == -IntMax - 1
IntHalf == 1073741824

\* a + b in int.
Add32(a, b) ==
  CASE a > 0 /\ b > 0 /\ a > IntMax - b ->
         ((a - IntHalf) - IntHalf) + ((b - IntHalf) - IntHalf)
    [] a < 0 /\ b < 0 /\ a < IntMin - b ->
         ((a + IntHalf) + IntHalf) + ((b + IntHalf) + IntHalf)
    [] OTHER -> a + b

RECURSIVE Mul32(_, _)
\* a * b in int.
Mul32(a, b) ==
  CASE b = 0      -> 0
    [] b = 1      -> a
    [] b = IntMin -> IF a % 2 = 0 THEN 0 ELSE IntMin
    [] b < 0      -> Mul32(IF a = IntMin THEN a ELSE -a, -b)
    [] b % 2 = 0  -> Mul32(Add32(a, a), b \div 2)
    [] OTHER      -> Add32(a, Mul32(Add32(a, a), b \div 2))

\* roundup(x, align): the least multiple of align that is >= x.
roundup(x, align) ==
  IF align <= 0 THEN x
  ELSE LET y == Add32(x, align - 1) IN y - (y % align)

ZeroType ==
  [ty |-> "", size |-> 0, align |-> 0, ptr_to |-> NULL, ary_of |-> NULL,
   len |-> 0, members |-> NULL, offset |-> 0, returning |-> NULL]

\* calloc(1, sizeof(Type)) followed by the assignment of the given fields.
alloc_type(s, t) == R([s EXCEPT !.types = Append(@, t)], Len(s.types) + 1)

SizeofChar == 1
SizeofInt == 4
SizeofPtr == 8

void_ty(s) == alloc_type(s, [ZeroType EXCEPT !.ty = "VOID"])
bool_ty(s) == alloc_type(s, [ZeroType EXCEPT !.ty = "BOOL", !.size = SizeofChar, !.align = SizeofChar])
char_ty(s) == alloc_type(s, [ZeroType EXCEPT !.ty = "CHAR", !.size = SizeofChar, !.align = SizeofChar])
int_ty(s) == alloc_type(s, [ZeroType EXCEPT !.ty = "INT", !.size = SizeofInt, !.align = SizeofInt])
ptr_to(s, base) ==
  alloc_type(s, [ZeroType EXCEPT !.ty = "PTR", !.size = SizeofPtr, !.align = SizeofPtr,
                                 !.ptr_to = base])
func_ty(s, base) == alloc_type(s, [ZeroType EXCEPT !.ty = "FUNC", !.returning = base])
ary_of(s, base, len) ==
  IF Failed(s) \/ base = NULL THEN R(s, NULL)
  ELSE alloc_type(s, [ZeroType EXCEPT !.ty = "ARY", !.size = Mul32(s.types[base].size, len),
                                      !.align = s.types[base].align,
                                      !.ary_of = base, !.len = len])

---------------------------------------------------------------------------
(* The state at program start: every file-scope pointer is NULL, nlabel    *)
(* is 1 (parse.c:18).                                                      *)

NullProg == [null |-> TRUE, gvars |-> <<>>, funcs |-> <<>>]

InitSt ==
  [tokens |-> <<EofTok>>, pos |-> 0,
   env |-> NULL, envs |-> <<>>, maps |-> <<>>, types |-> <<>>, vars |-> <<>>,
   prog |-> NullProg,
   lvars |-> NULL, vecs |-> <<>>, breaks |-> NullVec, continues |-> NullVec, switches |-> NullVec,
   cases |-> <<>>,
   nlabel |-> 1, nnode |-> 0,
   err |-> "", warns |-> <<>>]

---------------------------------------------------------------------------
(* token utils (parse.c:26-58)                                             *)

peek(s) == IF Failed(s) THEN EofTok ELSE s.tokens[s.pos + 1]

expect(s, ty) ==
  IF Failed(s) THEN s
  ELSE IF peek(s).ty = ty THEN [s EXCEPT !.pos = @ + 1]
  ELSE bad_token(s, peek(s), IF ty = "TK_WHILE" THEN "'while' expected"
                             ELSE ty \o " expected")

\* consume(ty): the value is whether the token was consumed.
consume(s, ty) ==
  IF Failed(s) \/ peek(s).ty # ty THEN R(s, FALSE)
  ELSE R([s EXCEPT !.pos = @ + 1], TRUE)

get(s) == IF Failed(s) THEN R(s, EofTok) ELSE R([s EXCEPT !.pos = @ + 1], peek(s))

unget(s, t) ==
  IF Failed(s) THEN s
  ELSE IF s.tokens[s.pos] # t THEN assert_fail(s, "tokens->data[pos] == t")
  ELSE [s EXCEPT !.pos = @ - 1]

---------------------------------------------------------------------------
(* env utils (parse.c:63-127)                                              *)

new_env(s, prev) ==
  LET m1 == new_map(s)
      m2 == new_map(m1.st)
      m3 == new_map(m2.st)
      e  == [vars |-> m1.v, typedefs |-> m2.v, tags |-> m3.v, prev |-> prev]
  IN R([m3.st EXCEPT !.envs = Append(@, e)], Len(s.envs) + 1)

push_env(s) ==
  IF Failed(s) THEN s
  ELSE LET e == new_env(s, s.env) IN [e.st EXCEPT !.env = e.v]

pop_env(s) ==
  IF Failed(s) THEN s
  ELSE IF s.env = NULL THEN assert_fail(s, "env")
  ELSE [s EXCEPT !.env = s.envs[s.env].prev]

new_var(s, ty, name, is_local, data) ==
  IF Failed(s) THEN R(s, NULL)
  ELSE R([s EXCEPT !.vars = Append(@, [ty |-> ty, name |-> name, is_local |-> is_local,
                                       data |-> data])],
         Len(s.vars) + 1)

add_var(s, var) ==
  IF Failed(s) THEN s
  ELSE map_put(s, s.envs[s.env].vars, s.vars[var].name, var)

RECURSIVE find_in_outermost(_, _, _, _)
\* find_in with the frames searched from the root: the outermost binding wins.
find_in_outermost(s, e, field, name) ==
  IF e = NULL THEN NULL
  ELSE LET outer == find_in_outermost(s, s.envs[e].prev, field, name)
       IN IF outer # NULL THEN outer ELSE map_get(s, s.envs[e][field], name)

RECURSIVE find_in(_, _, _, _)
\* The loop `for (Env *e = env; e; e = e->prev)` of find_var, find_typedef and
\* find_tag, from frame e, over the map named by field.
find_in(s, e, field, name) ==
  IF e = NULL THEN NULL
  ELSE LET hit == map_get(s, s.envs[e][field], name)
       IN IF hit # NULL THEN hit ELSE find_in(s, s.envs[e].prev, field, name)

find_var(s, name) == find_in(s, s.env, "vars", name)

find_typedef(s, name) == find_in(s, s.env, "typedefs", name)

find_tag(s, name) == find_in(s, s.env, "tags", name)

\* vec_push(lvars, var), after the two assertions.
alloc_local_storage(s, var) ==
  IF Failed(s) THEN s
  ELSE IF ~s.vars[var].is_local THEN assert_fail(s, "var->is_local")
  ELSE IF s.envs[s.env].prev = NULL THEN assert_fail(s, "env->prev != NULL")
  ELSE IF s.lvars = NULL THEN assert_fail(s, "lvars is NULL")
  ELSE [s EXCEPT !.vecs[s.lvars] = Append(@, var)]

alloc_global_storage(s, var) ==
  IF Failed(s) THEN s
  ELSE IF s.vars[var].is_local THEN assert_fail(s, "!var->is_local")
  ELSE [s EXCEPT !.prog.gvars = Append(@, var)]

---------------------------------------------------------------------------
(* AST nodes (parse.c:239-275).  The arguments of a constructor call are   *)
(* built before the node itself, as in C; where C leaves the order of two  *)
(* arguments open, only the allocation numbers depend on it, and the model *)
(* builds them left to right.                                              *)
(*                                                                         *)
(* A parsing function tests the result of each call it makes before it     *)
(* goes on, in program order: once a call has failed the process has       *)
(* ended and the failed result is the function's result.  A call whose     *)
(* result the caller goes on to work with is written call("f", s, a), the  *)
(* call of f by name; a call whose result is the caller's own result is    *)
(* written f(s).                                                           *)

ErrNode == [op |-> "ND_ERR", id |-> -1]

\* The static node null_stmt (parse.c:136).
null_stmt == [op |-> "ND_NULL", id |-> 0]

\* node->ty, NULL when the parser has not set it.
TypeOf(node) == IF "ty" \in DOMAIN node THEN node.ty ELSE NULL

new_node(s, op, t) ==
  R([s EXCEPT !.nnode = @ + 1], [op |-> op, id |-> s.nnode + 1, token |-> t])

new_binop(s, op, t, lhs, rhs) ==
  LET n == new_node(s, op, t) IN R(n.st, n.v @@ [lhs |-> lhs, rhs |-> rhs])

new_expr(s, op, t, e) ==
  LET n == new_node(s, op, t) IN R(n.st, n.v @@ [expr |-> e])

new_varref(s, t, var) ==
  LET n == new_node(s, "ND_VARREF", t)
  IN R(n.st, n.v @@ [ty |-> IF var = NULL THEN NULL ELSE s.vars[var].ty, var |-> var])

new_deref(s, t, var) ==
  LET v == new_varref(s, t, var) IN new_expr(v.st, "ND_DEREF", t, v.v)

new_int_node(s, val, t) ==
  LET n  == new_node(s, "ND_NUM", t)
      ty == int_ty(n.st)
  IN R(ty.st, n.v @@ [ty |-> ty.v, val |-> val])

RECURSIVE stmt(_), compound_stmt(_), compound_stmt_loop(_, _), stmt_expr(_),
          stmt_expr_loop(_, _), primary(_), postfix(_), postfix_loop(_),
          unary(_), mul(_), mul_loop(_), add(_), add_loop(_), shift(_),
          shift_loop(_), relational(_), relational_loop(_), equality(_),
          equality_loop(_), bit_and(_), bit_and_loop(_), bit_xor(_),
          bit_xor_loop(_), bit_or(_), bit_or_loop(_), logand(_),
          logand_loop(_), logor(_), logor_loop(_), conditional(_),
          assign(_), expr(_), function_call(_, _), function_call_args(_, _),
          decl_specifiers(_), struct_members(_, _), declaration_type(_),
          declaration(_), declarator(_, _), direct_decl(_, _), read_array(_, _),
          read_array_dims(_, _), const_expr(_), expr_stmt(_), param_declaration(_),
          toplevel(_), call(_, _, _)

ident(s) ==
  LET g == get(s)
  IN IF g.v.ty # "TK_IDENT" THEN R(bad_token(g.st, g.v, "identifier expected"), "")
     ELSE R(g.st, g.v.name)

\* A TK_STR token carries the string in name and its length in val.
string_literal(s, t) ==
  LET c    == char_ty(s)
      ty   == ary_of(c.st, c.v, t.val)
      name == format_label(ty.st.nlabel)
      s1   == [ty.st EXCEPT !.nlabel = @ + 1]
      n    == new_node(s1, "ND_VARREF", t)
      var  == new_var(n.st, ty.v, name, FALSE, t.name)
  IN IF c.ok /\ ty.ok /\ n.ok /\ var.ok
     THEN R(alloc_global_storage(var.st, var.v), n.v @@ [ty |-> ty.v, var |-> var.v])
     ELSE R(s, ErrNode)

local_variable(s, t) ==
  LET var == find_var(s, t.name)
  IN IF Failed(s) THEN R(s, ErrNode)
     ELSE IF var = NULL THEN R(bad_token(s, t, "undefined variable"), ErrNode)
     ELSE LET n == new_node(s, "ND_VARREF", t)
          IN R(n.st, n.v @@ [ty |-> s.vars[var].ty, name |-> t.name, var |-> var])

\* `while (!consume(')')) { if (args->len > 0) expect(','); vec_push(args, assign()); }`
function_call_args(s, args) ==
  LET c == consume(s, ")")
  IN IF Failed(s) \/ c.v THEN R(c.st, args)
     ELSE LET s1 == IF Len(args) > 0 THEN expect(c.st, ",") ELSE c.st
              a  == call("assign", s1, NULL)
          IN IF a.ok THEN function_call_args(a.st, Append(args, a.v))
             ELSE R(a.st, args)

function_call(s, t) ==
  LET var  == find_var(s, t.name)
      n    == new_node(s, "ND_CALL", t)
      \* `var && var->ty->ty == FUNC` reads through var->ty.
      segv == var # NULL /\ s.vars[var].ty = NULL
      isfn == var # NULL /\ ~segv /\ s.types[s.vars[var].ty].ty = "FUNC"
      s1   == CASE segv  -> assert_fail(n.st, "SIGSEGV: var->ty")
                [] isfn  -> n.st
                [] OTHER -> warn_token(n.st, t, "undefined function")
      i    == IF isfn THEN R(s1, NULL) ELSE int_ty(s1)
      fty  == IF isfn THEN R(s1, s.vars[var].ty) ELSE func_ty(i.st, i.v)
      as   == function_call_args(fty.st, <<>>)
  IN CASE Failed(s) -> R(s, ErrNode)
       [] ~fty.ok   -> R(fty.st, ErrNode)
       [] ~as.ok    -> R(as.st, ErrNode)
       [] OTHER     -> R(as.st, n.v @@ [name |-> t.name, ty |-> fty.v, args |-> as.v])

primary(s) ==
  LET g == get(s)
      t == g.v
  IN CASE t.ty = "(" ->
            LET c == consume(g.st, "{")
            IN IF c.v THEN stmt_expr(c.st)
               ELSE LET node == call("expr", c.st, NULL)
                    IN IF node.ok THEN R(expect(node.st, ")"), node.v) ELSE node
       [] t.ty = "TK_NUM" -> new_int_node(g.st, t.val, t)
       [] t.ty = "TK_STR" -> string_literal(g.st, t)
       [] t.ty = "TK_IDENT" ->
            LET c == consume(g.st, "(")
            IN IF c.v THEN function_call(c.st, t) ELSE local_variable(c.st, t)
       [] OTHER -> R(bad_token(g.st, t, "primary expression expected"), ErrNode)

\* new_stmt_expr(t, exprs): the last expression is the value, the others
\* become expression statements.  The statements are allocated in order,
\* then the node.
RECURSIVE wrap_expr_stmts(_, _, _, _)
wrap_expr_stmts(s, t, exprs, acc) ==
  IF exprs = <<>> THEN R(s, acc)
  ELSE LET e == new_expr(s, "ND_EXPR_STMT", t, Head(exprs))
       IN wrap_expr_stmts(e.st, t, Tail(exprs), Append(acc, e.v))

new_stmt_expr(s, t, exprs) ==
  LET last == exprs[Len(exprs)]
      v    == wrap_expr_stmts(s, t, SubSeq(exprs, 1, Len(exprs) - 1), <<>>)
      n    == new_node(v.st, "ND_STMT_EXPR", t)
  IN R(n.st, n.v @@ [stmts |-> v.v, expr |-> last])

---------------------------------------------------------------------------
(* get_type() of the later pass (sema.c), as far as sizeof, _Alignof and   *)
(* typeof use it: the static type of an expression.  The operand is not    *)
(* evaluated; an array keeps its type unless it is an operand of another   *)
(* operator, where it decays to a pointer to its element.                  *)

RECURSIVE walk_type(_, _, _)
walk_type(s, node, decay) ==
  LET op == node.op
      \* An array in a value context becomes a pointer to its element.
      maybe_decay(r) ==
        IF decay /\ r.ok /\ r.v # NULL /\ r.st.types[r.v].ty = "ARY"
        THEN ptr_to(r.st, r.st.types[r.v].ary_of)
        ELSE r
      deref(r) ==
        CASE ~r.ok -> r
          [] r.v = NULL \/ r.st.types[r.v].ty # "PTR" ->
               R(bad_token(r.st, node.token, "operand must be a pointer"), NULL)
          [] OTHER -> R(r.st, r.st.types[r.v].ptr_to)
      member(r) ==
        CASE ~r.ok -> r
          [] r.v = NULL \/ r.st.types[r.v].ty # "STRUCT" ->
               R(bad_token(r.st, node.token, "struct expected before '.'"), NULL)
          [] r.st.types[r.v].members = NULL
               \/ map_get(r.st, r.st.types[r.v].members, node.name) = NULL ->
               R(bad_token(r.st, node.token, "member missing"), NULL)
          [] OTHER -> R(r.st, map_get(r.st, r.st.types[r.v].members, node.name))
      addr(r) == IF r.ok THEN ptr_to(r.st, r.v) ELSE r
      \* The type of lhs + rhs and lhs - rhs, from the types of the operands.
      additive(l, r) ==
        CASE ~r.ok -> r
          [] l.v # NULL /\ r.st.types[l.v].ty = "PTR" -> R(r.st, l.v)
          [] op = "+" /\ r.v # NULL /\ r.st.types[r.v].ty = "PTR" -> r
          [] OTHER -> int_ty(r.st)
      second(l, r) == IF l.ok THEN r ELSE l
      lhs_type == walk_type(s, node.lhs, TRUE)
  IN CASE op \in {"ND_NUM", "ND_VARREF"} -> maybe_decay(R(s, TypeOf(node)))
       [] op = "ND_DEREF"     -> maybe_decay(deref(walk_type(s, node.expr, TRUE)))
       [] op = "ND_DOT"       -> maybe_decay(member(walk_type(s, node.expr, TRUE)))
       [] op = "ND_ADDR"      -> addr(walk_type(s, node.expr, FALSE))
       [] op = "ND_CALL"      -> R(s, s.types[node.ty].returning)
       [] op = "ND_STMT_EXPR" -> walk_type(s, node.expr, TRUE)
       [] op = "="            -> walk_type(s, node.lhs, FALSE)
       [] op = "?"            -> walk_type(s, node.then, TRUE)
       [] op = ","            -> walk_type(s, node.rhs, TRUE)
       [] op \in {"+", "-"}   ->
            additive(lhs_type, walk_type(lhs_type.st, node.rhs, TRUE))
       [] OTHER               -> int_ty(s)

get_type(s, node) == walk_type(s, node, FALSE)

---------------------------------------------------------------------------
(* Expression grammar (parse.c:392-657)                                    *)

\* `x op= y` where x is of type T is compiled as
\* `({ T *z = &x; *z = *z op y; })`.
new_assign_eq(s, op, lhs, rhs) ==
  LET t   == lhs.token
      p   == ptr_to(s, TypeOf(lhs))
      var == new_var(p.st, p.v, ".tmp", TRUE, "")
      s1  == alloc_local_storage(var.st, var.v)
      \* z = &x
      set_z(s0) == LET l == new_varref(s0, t, var.v)
                       r == new_expr(l.st, "ND_ADDR", t, lhs)
                   IN new_binop(r.st, "=", t, l.v, r.v)
      \* *z = *z op y
      upd_z(s0) == LET l  == new_deref(s0, t, var.v)
                       r1 == new_deref(l.st, t, var.v)
                       r  == new_binop(r1.st, op, t, r1.v, rhs)
                   IN new_binop(r.st, "=", t, l.v, r.v)
      a   == set_z(s1)
      b   == upd_z(a.st)
  IN CASE ~var.ok    -> R(var.st, ErrNode)
       [] Failed(s1) -> R(s1, ErrNode)
       [] a.ok /\ b.ok -> new_stmt_expr(b.st, t, <<a.v, b.v>>)

\* `x++` where x is of type T is compiled as
\* `({ T *y = &x; T z = *y; *y = *y + 1; z; })`.
new_post_inc(s, t, e, imm) ==
  LET p1   == ptr_to(s, TypeOf(e))
      var1 == new_var(p1.st, p1.v, ".tmp", TRUE, "")
      s1   == alloc_local_storage(var1.st, var1.v)
      var2 == new_var(s1, TypeOf(e), ".tmp", TRUE, "")
      s2   == alloc_local_storage(var2.st, var2.v)
      \* y = &x
      set_y(s0) == LET l == new_varref(s0, t, var1.v)
                       r == new_expr(l.st, "ND_ADDR", t, e)
                   IN new_binop(r.st, "=", t, l.v, r.v)
      \* z = *y
      set_z(s0) == LET l == new_varref(s0, t, var2.v)
                       r == new_deref(l.st, t, var1.v)
                   IN new_binop(r.st, "=", t, l.v, r.v)
      \* *y = *y + imm
      upd_y(s0) == LET l  == new_deref(s0, t, var1.v)
                       r1 == new_deref(l.st, t, var1.v)
                       r2 == new_int_node(r1.st, imm, t)
                       r  == new_binop(r2.st, "+", t, r1.v, r2.v)
                   IN new_binop(r.st, "=", t, l.v, r.v)
      a    == set_y(s2)
      b    == set_z(a.st)
      c    == upd_y(b.st)
      \* z
      d    == new_varref(c.st, t, var2.v)
  IN CASE ~var1.ok   -> R(var1.st, ErrNode)
       [] Failed(s1) -> R(s1, ErrNode)
       [] Failed(s2) -> R(s2, ErrNode)
       [] a.ok /\ b.ok /\ c.ok /\ d.ok ->
            new_stmt_expr(d.st, t, <<a.v, b.v, c.v, d.v>>)

postfix_loop(lhs) ==
  IF lhs.ok THEN
    LET t == peek(lhs.st)
    IN CASE t.ty = "TK_INC" ->
              postfix_loop(new_post_inc(consume(lhs.st, "TK_INC").st, t, lhs.v, 1))
         [] t.ty = "TK_DEC" ->
              postfix_loop(new_post_inc(consume(lhs.st, "TK_DEC").st, t, lhs.v, -1))
         [] t.ty = "." ->
              LET n  == new_expr(consume(lhs.st, ".").st, "ND_DOT", t, lhs.v)
                  nm == ident(n.st)
              IN postfix_loop(R(nm.st, n.v @@ [name |-> nm.v]))
         [] t.ty = "TK_ARROW" ->
              LET d  == new_expr(consume(lhs.st, "TK_ARROW").st, "ND_DEREF", t, lhs.v)
                  n  == new_expr(d.st, "ND_DOT", t, d.v)
                  nm == ident(n.st)
              IN postfix_loop(R(nm.st, n.v @@ [name |-> nm.v]))
         [] t.ty = "[" ->
              LET idx  == call("assign", consume(lhs.st, "[").st, NULL)
                  node == new_binop(idx.st, "+", t, lhs.v, idx.v)
                  d    == new_expr(node.st, "ND_DEREF", t, node.v)
              IN IF idx.ok THEN postfix_loop(R(expect(d.st, "]"), d.v)) ELSE idx
         [] OTHER -> lhs
  ELSE lhs

postfix(s) == postfix_loop(primary(s))

sizeof_value(ty, field, t) ==
  CASE ~ty.ok      -> R(ty.st, ErrNode)
    [] ty.v = NULL -> R(assert_fail(ty.st, "SIGSEGV: get_type(node)->" \o field), ErrNode)
    [] OTHER       -> new_int_node(ty.st, ty.st.types[ty.v][field], t)

\* `new_int_node(get_type(unary())->size, t)`, and the same for align: u is
\* the result of unary(), field the member of the Type that is read.
sizeof_node(u, field, t) ==
  IF ~u.ok THEN u
  ELSE sizeof_value(get_type(u.st, u.v), field, t)

unary(s) ==
  LET t == peek(s)
  IN CASE t.ty = "-" ->
            LET z == new_int_node(consume(s, "-").st, 0, t)
                u == call("unary", z.st, NULL)
            IN IF u.ok THEN new_binop(u.st, "-", t, z.v, u.v) ELSE u
       [] t.ty = "*" ->
            LET u == call("unary", consume(s, "*").st, NULL)
            IN IF u.ok THEN new_expr(u.st, "ND_DEREF", t, u.v) ELSE u
       [] t.ty = "&" ->
            LET u == call("unary", consume(s, "&").st, NULL)
            IN IF u.ok THEN new_expr(u.st, "ND_ADDR", t, u.v) ELSE u
       [] t.ty = "!" ->
            LET u == call("unary", consume(s, "!").st, NULL)
            IN IF u.ok THEN new_expr(u.st, "!", t, u.v) ELSE u
       [] t.ty = "~" ->
            LET u == call("unary", consume(s, "~").st, NULL)
            IN IF u.ok THEN new_expr(u.st, "~", t, u.v) ELSE u
       [] t.ty = "TK_SIZEOF" ->
            sizeof_node(call("unary", consume(s, "TK_SIZEOF").st, NULL), "size", t)
       [] t.ty = "TK_ALIGNOF" ->
            sizeof_node(call("unary", consume(s, "TK_ALIGNOF").st, NULL), "align", t)
       [] t.ty = "TK_INC" ->
            LET u == call("unary", consume(s, "TK_INC").st, NULL)
                i == new_int_node(u.st, 1, t)
            IN IF u.ok THEN new_assign_eq(i.st, "+", u.v, i.v) ELSE u
       [] t.ty = "TK_DEC" ->
            LET u == call("unary", consume(s, "TK_DEC").st, NULL)
                i == new_int_node(u.st, 1, t)
            IN IF u.ok THEN new_assign_eq(i.st, "-", u.v, i.v) ELSE u
       [] OTHER -> postfix(s)

\* The loop of mul() once lhs has been read.
mul_loop(lhs) ==
  IF lhs.ok THEN
    LET t == peek(lhs.st)
    IN IF t.ty \in {"*", "/", "%"} THEN
         LET r == call("unary", consume(lhs.st, t.ty).st, NULL)
         IN IF r.ok THEN mul_loop(new_binop(r.st, t.ty, t, lhs.v, r.v)) ELSE r
       ELSE lhs
  ELSE lhs

mul(s) == mul_loop(call("unary", s, NULL))

add_loop(lhs) ==
  IF lhs.ok THEN
    LET t == peek(lhs.st)
    IN IF t.ty \in {"+", "-"} THEN
         LET r == call("mul", consume(lhs.st, t.ty).st, NULL)
         IN IF r.ok THEN add_loop(new_binop(r.st, t.ty, t, lhs.v, r.v)) ELSE r
       ELSE lhs
  ELSE lhs

add(s) == add_loop(call("mul", s, NULL))

shift_loop(lhs) ==
  IF lhs.ok THEN
    LET t == peek(lhs.st)
    IN IF t.ty \in {"TK_SHL", "TK_SHR"} THEN
         LET r == call("add", consume(lhs.st, t.ty).st, NULL)
         IN IF r.ok
            THEN shift_loop(new_binop(r.st, IF t.ty = "TK_SHL" THEN "ND_SHL" ELSE "ND_SHR",
                                      t, lhs.v, r.v))
            ELSE r
       ELSE lhs
  ELSE lhs

shift(s) == shift_loop(call("add", s, NULL))

RECURSIVE relational_loop_noswap(_)
\* relational_loop with the operands of `>` and `>=` left in source order.
relational_loop_noswap(lhs) ==
  IF lhs.ok THEN
    LET t == peek(lhs.st)
    IN IF t.ty \in {"<", ">", "TK_LE", "TK_GE"} THEN
         LET r == call("shift", consume(lhs.st, t.ty).st, NULL)
         IN IF r.ok THEN
              relational_loop_noswap(
                new_binop(r.st, IF t.ty \in {"<", ">"} THEN "<" ELSE "ND_LE", t, lhs.v, r.v))
            ELSE r
       ELSE lhs
  ELSE lhs

relational_loop(lhs) ==
  IF lhs.ok THEN
    LET t == peek(lhs.st)
    IN IF t.ty \in {"<", ">", "TK_LE", "TK_GE"} THEN
         LET r == call("shift", consume(lhs.st, t.ty).st, NULL)
         IN IF r.ok THEN
              relational_loop(
                CASE t.ty = "<"     -> new_binop(r.st, "<", t, lhs.v, r.v)
                  [] t.ty = ">"     -> new_binop(r.st, "<", t, r.v, lhs.v)
                  [] t.ty = "TK_LE" -> new_binop(r.st, "ND_LE", t, lhs.v, r.v)
                  [] t.ty = "TK_GE" -> new_binop(r.st, "ND_LE", t, r.v, lhs.v))
            ELSE r
       ELSE lhs
  ELSE lhs

relational(s) == relational_loop(call("shift", s, NULL))

equality_loop(lhs) ==
  IF lhs.ok THEN
    LET t == peek(lhs.st)
    IN IF t.ty \in {"TK_EQ", "TK_NE"} THEN
         LET r == call("relational", consume(lhs.st, t.ty).st, NULL)
         IN IF r.ok
            THEN equality_loop(new_binop(r.st, IF t.ty = "TK_EQ" THEN "ND_EQ" ELSE "ND_NE",
                                         t, lhs.v, r.v))
            ELSE r
       ELSE lhs
  ELSE lhs

equality(s) == equality_loop(call("relational", s, NULL))

\* From bit_and to logor the node's token is the one after the operator
\* (peek() follows consume()).
bit_and_loop(lhs) ==
  IF lhs.ok THEN
    LET c == consume(lhs.st, "&")
    IN IF c.v THEN
         LET r == call("equality", c.st, NULL)
         IN IF r.ok THEN bit_and_loop(new_binop(r.st, "&", peek(c.st), lhs.v, r.v)) ELSE r
       ELSE lhs
  ELSE lhs

bit_and(s) == bit_and_loop(call("equality", s, NULL))

bit_xor_loop(lhs) ==
  IF lhs.ok THEN
    LET c == consume(lhs.st, "^")
    IN IF c.v THEN
         LET r == call("bit_and", c.st, NULL)
         IN IF r.ok THEN bit_xor_loop(new_binop(r.st, "^", peek(c.st), lhs.v, r.v)) ELSE r
       ELSE lhs
  ELSE lhs

bit_xor(s) == bit_xor_loop(call("bit_and", s, NULL))

bit_or_loop(lhs) ==
  IF lhs.ok THEN
    LET c == consume(lhs.st, "|")
    IN IF c.v THEN
         LET r == call("bit_xor", c.st, NULL)
         IN IF r.ok THEN bit_or_loop(new_binop(r.st, "|", peek(c.st), lhs.v, r.v)) ELSE r
       ELSE lhs
  ELSE lhs

bit_or(s) == bit_or_loop(call("bit_xor", s, NULL))

logand_loop(lhs) ==
  IF lhs.ok THEN
    LET c == consume(lhs.st, "TK_LOGAND")
    IN IF c.v THEN
         LET r == call("bit_or", c.st, NULL)
         IN IF r.ok THEN logand_loop(new_binop(r.st, "ND_LOGAND", peek(c.st), lhs.v, r.v))
            ELSE r
       ELSE lhs
  ELSE lhs

logand(s) == logand_loop(call("bit_or", s, NULL))

logor_loop(lhs) ==
  IF lhs.ok THEN
    LET c == consume(lhs.st, "TK_LOGOR")
    IN IF c.v THEN
         LET r == call("logand", c.st, NULL)
         IN IF r.ok THEN logor_loop(new_binop(r.st, "ND_LOGOR", peek(c.st), lhs.v, r.v))
            ELSE r
       ELSE lhs
  ELSE lhs

logor(s) == logor_loop(call("logand", s, NULL))

conditional(s) ==
  LET cond == call("logor", s, NULL)
  IN IF cond.ok THEN
       LET t == peek(cond.st)
           c == consume(cond.st, "?")
       IN IF ~c.v THEN cond
          ELSE LET node == new_node(c.st, "?", t)
                   then == call("expr", node.st, NULL)
               IN IF then.ok THEN
                    LET els == call("conditional", expect(then.st, ":"), NULL)
                    IN R(els.st, node.v @@ [cond |-> cond.v, then |-> then.v,
                                            els |-> els.v])
                  ELSE then
     ELSE cond

\* The node kind assign() passes to new_assign_eq() for a compound
\* assignment token (parse.c:628-647).
AssignEqOp(ty) ==
  CASE ty = "TK_MUL_EQ" -> "*"
    [] ty = "TK_DIV_EQ" -> "/"
    [] ty = "TK_MOD_EQ" -> "%"
    [] ty = "TK_ADD_EQ" -> "+"
    [] ty = "TK_SUB_EQ" -> "-"
    [] ty = "TK_SHL_EQ" -> "ND_SHL"
    [] ty = "TK_SHR_EQ" -> "ND_SHR"
    [] ty = "TK_AND_EQ" -> "ND_LOGAND"
    [] ty = "TK_XOR_EQ" -> "^"
    [] ty = "TK_OR_EQ" -> "|"

AssignEqTokens ==
  {"TK_MUL_EQ", "TK_DIV_EQ", "TK_MOD_EQ", "TK_ADD_EQ", "TK_SUB_EQ", "TK_SHL_EQ",
   "TK_SHR_EQ", "TK_AND_EQ", "TK_XOR_EQ", "TK_OR_EQ"}

assign(s) ==
  LET lhs == call("conditional", s, NULL)
  IN IF lhs.ok THEN
       LET t == peek(lhs.st)
       IN CASE t.ty = "=" ->
                 LET r == call("assign", consume(lhs.st, "=").st, NULL)
                 IN IF r.ok THEN new_binop(r.st, "=", t, lhs.v, r.v) ELSE r
            [] t.ty \in AssignEqTokens ->
                 LET r == call("assign", consume(lhs.st, t.ty).st, NULL)
                 IN IF r.ok THEN new_assign_eq(r.st, AssignEqOp(t.ty), lhs.v, r.v) ELSE r
            [] OTHER -> lhs
     ELSE lhs

expr(s) ==
  LET lhs == call("assign", s, NULL)
  IN IF lhs.ok THEN
       LET t == peek(lhs.st)
           c == consume(lhs.st, ",")
       IN IF ~c.v THEN lhs
          ELSE LET r == call("expr", c.st, NULL)
               IN IF r.ok THEN new_binop(r.st, ",", t, lhs.v, r.v) ELSE r
     ELSE lhs

const_expr(s) ==
  LET t    == peek(s)
      node == call("expr", s, NULL)
  IN IF ~node.ok THEN R(node.st, 0)
     ELSE IF node.v.op # "ND_NUM" THEN
       R(bad_token(node.st, t, "constant expression expected"), 0)
     ELSE R(node.st, node.v.val)

---------------------------------------------------------------------------
(* Types and declarations (parse.c:153-237, 667-754)                       *)

is_typename(s) ==
  LET t == peek(s)
  IN IF t.ty = "TK_IDENT" THEN find_typedef(s, t.name) # NULL
     ELSE t.ty \in {"TK_INT", "TK_CHAR", "TK_VOID", "TK_STRUCT", "TK_TYPEOF", "TK_BOOL"}

RECURSIVE fix_struct_offsets_loop(_, _, _, _)
\* The body of the loop of fix_struct_offsets for member i (from 1), with
\* the running offset off.  The value is the final offset.
fix_struct_offsets_loop(s, ty, i, off) ==
  LET types == s.maps[s.types[ty].members].vals
  IN IF i > Len(types) THEN R(s, off)
     ELSE LET t2   == types[i]
              off1 == roundup(off, s.types[t2].align)
              s1   == [s EXCEPT !.types[t2].offset = off1]
              off2 == Add32(off1, s1.types[t2].size)
              s2   == IF s1.types[ty].align < s1.types[t2].align
                      THEN [s1 EXCEPT !.types[ty].align = s1.types[t2].align]
                      ELSE s1
          IN fix_struct_offsets_loop(s2, ty, i + 1, off2)

fix_struct_offsets(s, ty) ==
  IF Failed(s) THEN s
  ELSE LET l == fix_struct_offsets_loop(s, ty, 1, 0)
       IN [l.st EXCEPT !.types[ty].size = roundup(l.v, l.st.types[ty].align)]

\* The loop `while (!consume('}'))` over the member declarations of the
\* struct type ty.
struct_members(s, ty) ==
  LET c == consume(s, "}")
  IN IF Failed(s) \/ c.v THEN c.st
     ELSE LET node == call("declaration_type", c.st, NULL)
          IN IF node.ok
             THEN struct_members(map_put(node.st, node.st.types[ty].members,
                                         node.v.name, node.v.ty), ty)
             ELSE node.st

\* The TK_STRUCT branch of decl_specifiers (parse.c:205-234).
struct_specifier(s) ==
  LET t     == peek(s)
      c     == consume(s, "TK_IDENT")
      tag   == IF c.v THEN t.name ELSE ""
      found == IF c.v THEN find_tag(c.st, tag) ELSE NULL
      ty    == IF found # NULL THEN R(c.st, found)
               ELSE alloc_type(c.st, [ZeroType EXCEPT !.ty = "STRUCT"])
      \* `if (consume('{')) { ty->members = new_map(); ...; fix_struct_offsets(ty); }`
      members(s0) ==
        LET b == consume(s0, "{")
            m == new_map(b.st)
        IN IF b.v
           THEN fix_struct_offsets(
                  struct_members([m.st EXCEPT !.types[ty.v].members = m.v], ty.v), ty.v)
           ELSE b.st
      \* `if (!tag && !ty->members) bad_token(t, "bad struct definition");`
      check(s0) ==
        IF ~Failed(s0) /\ tag = "" /\ s0.types[ty.v].members = NULL
        THEN bad_token(s0, t, "bad struct definition")
        ELSE s0
      \* `if (tag) map_put(env->tags, tag, ty);`
      put_tag(s0) ==
        CASE Failed(s0) -> R(s0, NULL)
          [] tag # ""   -> R(map_put(s0, s0.envs[s0.env].tags, tag, ty.v), ty.v)
          [] OTHER      -> R(s0, ty.v)
  IN put_tag(check(members(ty.st)))

typeof_type(s, node) == IF Failed(s) THEN R(s, NULL) ELSE get_type(s, node)

\* The TK_TYPEOF branch of decl_specifiers (parse.c:198-203).
typeof_specifier(s) ==
  LET node == call("expr", expect(s, "("), NULL)
  IN IF node.ok THEN typeof_type(expect(node.st, ")"), node.v) ELSE R(node.st, NULL)

decl_specifiers(s) ==
  LET g == get(s)
      t == g.v
  IN CASE t.ty = "TK_IDENT" ->
            LET ty == find_typedef(g.st, t.name)
            IN R(IF ty = NULL THEN unget(g.st, t) ELSE g.st, ty)
       [] t.ty = "TK_VOID"   -> void_ty(g.st)
       [] t.ty = "TK_BOOL"   -> bool_ty(g.st)
       [] t.ty = "TK_CHAR"   -> char_ty(g.st)
       [] t.ty = "TK_INT"    -> int_ty(g.st)
       [] t.ty = "TK_TYPEOF" -> typeof_specifier(g.st)
       [] t.ty = "TK_STRUCT" -> struct_specifier(g.st)
       [] OTHER -> R(bad_token(g.st, t, "typename expected"), NULL)

\* The loop `while (consume('['))`; dims collects the lengths, -1 for `[]`.
read_array_dims(s, dims) ==
  LET c == consume(s, "[")
  IN IF ~c.v THEN R(s, dims)
     ELSE LET e == consume(c.st, "]")
          IN IF e.v THEN read_array_dims(e.st, Append(dims, -1))
             ELSE LET len == call("const_expr", e.st, NULL)
                  IN IF len.ok
                     THEN read_array_dims(expect(len.st, "]"), Append(dims, len.v))
                     ELSE R(len.st, dims)

RECURSIVE ary_of_dims(_, _, _)
\* `for (int i = v->len - 1; i >= 0; i--) ty = ary_of(ty, len);`
ary_of_dims(s, ty, dims) ==
  IF dims = <<>> THEN R(s, ty)
  ELSE LET a == ary_of(s, ty, dims[Len(dims)])
       IN ary_of_dims(a.st, a.v, SubSeq(dims, 1, Len(dims) - 1))

read_array(s, ty) ==
  LET v == read_array_dims(s, <<>>)
  IN IF v.ok THEN ary_of_dims(v.st, ty, v.v) ELSE R(v.st, NULL)

direct_decl(s, ty) ==
  LET t           == peek(s)
      placeholder == alloc_type(s, ZeroType)
      declared(s0) ==
        LET c == consume(s0, "(")
        IN CASE t.ty = "TK_IDENT" ->
                  LET n  == new_node(s0, "ND_VARDEF", t)
                      nm == ident(n.st)
                  IN R(nm.st, n.v @@ [ty |-> placeholder.v, name |-> nm.v])
             [] c.v ->
                  LET d == call("declarator", c.st, placeholder.v)
                  IN IF d.ok THEN R(expect(d.st, ")"), d.v) ELSE d
             [] OTHER -> R(bad_token(c.st, t, "bad direct-declarator"), ErrNode)
      \* Read the second half of type name (e.g. `[3][5]`):
      \* `*placeholder = *read_array(ty);`
      suffix(a) ==
        CASE ~a.ok      -> a.st
          [] a.v = NULL -> assert_fail(a.st, "SIGSEGV: *read_array(ty)")
          [] OTHER      -> [a.st EXCEPT !.types[placeholder.v] = a.st.types[a.v]]
      \* Read an initializer.
      initializer(s0, n) ==
        LET i    == consume(s0, "=")
            init == call("assign", i.st, NULL)
        IN CASE ~i.v     -> R(s0, n)
             [] ~init.ok -> R(init.st, ErrNode)
             [] OTHER    -> R(init.st, [init |-> init.v] @@ n)
      node        == declared(placeholder.st)
      s1          == suffix(read_array(node.st, ty))
  IN CASE ~node.ok   -> R(node.st, ErrNode)
       [] Failed(s1) -> R(s1, ErrNode)
       [] OTHER      -> initializer(s1, node.v)

RECURSIVE declarator_stars(_, _)
\* `while (consume('*')) ty = ptr_to(ty);`
declarator_stars(s, ty) ==
  LET c == consume(s, "*")
  IN IF ~c.v THEN R(s, ty)
     ELSE LET p == ptr_to(c.st, ty) IN declarator_stars(p.st, p.v)

declarator(s, ty) ==
  LET p == declarator_stars(s, ty)
  IN IF p.ok THEN direct_decl(p.st, p.v) ELSE R(p.st, ErrNode)

declaration_type(s) ==
  LET ty   == call("decl_specifiers", s, NULL)
      node == call("declarator", ty.st, ty.v)
  IN CASE ~ty.ok   -> R(ty.st, ErrNode)
       [] ~node.ok -> node
       [] OTHER    -> R(expect(node.st, ";"), node.v)

declaration(s) ==
  LET ty   == call("decl_specifiers", s, NULL)
      node == call("declarator", ty.st, ty.v)
      s1   == expect(node.st, ";")
      var  == new_var(s1, node.v.ty, node.v.name, TRUE, "")
      s2   == alloc_local_storage(add_var(var.st, var.v), var.v)
      \* Convert `T var = init` to `T var; var = init`.
      t    == node.v.token
      lhs  == new_varref(s2, t, var.v)
      e    == new_binop(lhs.st, "=", t, lhs.v, node.v.init)
  IN CASE ~ty.ok     -> R(ty.st, ErrNode)
       [] ~node.ok   -> node
       [] Failed(s1) -> R(s1, ErrNode)
       [] Failed(s2) -> R(s2, ErrNode)
       [] "init" \notin DOMAIN node.v -> R(s2, null_stmt)
       [] lhs.ok /\ e.ok -> new_expr(e.st, "ND_EXPR_STMT", t, e.v)

param_declaration(s) ==
  LET ty   == call("decl_specifiers", s, NULL)
      node == call("declarator", ty.st, ty.v)
      nty  == node.st.types[node.v.ty]
      p    == IF nty.ty = "ARY" THEN ptr_to(node.st, nty.ary_of) ELSE R(node.st, node.v.ty)
  IN CASE ~ty.ok   -> R(ty.st, NULL)
       [] ~node.ok -> R(node.st, NULL)
       [] OTHER    -> new_var(p.st, p.v, node.v.name, TRUE, "")

expr_stmt(s) ==
  LET t == peek(s)
      e == call("expr", s, NULL)
      n == new_expr(e.st, "ND_EXPR_STMT", t, e.v)
  IN IF e.ok THEN R(expect(n.st, ";"), n.v) ELSE e

---------------------------------------------------------------------------
(* Statement grammar (parse.c:330-349, 763-916).  breaks, continues and    *)
(* switches hold the ids of the nodes pushed; n->cases of a switch node    *)
(* under construction is kept in st.cases as pairs of the switch's id and  *)
(* the case node's id, in the order of the vec_push calls.                 *)

vec_push(s, vec, x) ==
  IF Failed(s) THEN s
  ELSE IF s[vec].null THEN assert_fail(s, "SIGSEGV: " \o vec)
  ELSE [s EXCEPT ![vec].data = Append(@, x)]

vec_pop(s, vec) ==
  IF Failed(s) THEN s
  ELSE IF s[vec].null THEN assert_fail(s, "SIGSEGV: " \o vec)
  ELSE IF s[vec].data = <<>> THEN assert_fail(s, "v->len")
  ELSE [s EXCEPT ![vec].data = SubSeq(@, 1, Len(@) - 1)]

vec_last(s, vec) == s[vec].data[Len(s[vec].data)]

\* v->len == 0; reading through a NULL vector is a crash.
vec_empty(s, vec) == s[vec].data = <<>>

\* `do { vec_push(v, stmt()); } while (!consume('}'));`
stmt_expr_loop(s, v) ==
  LET n == call("stmt", s, NULL)
  IN IF n.ok THEN
       LET c == consume(n.st, "}")
       IN IF c.v THEN R(c.st, Append(v, n.v))
          ELSE stmt_expr_loop(c.st, Append(v, n.v))
     ELSE R(n.st, v)

stmt_expr(s) ==
  LET t    == peek(s)
      s0   == push_env(s)
      v    == stmt_expr_loop(s0, <<>>)
      s1   == pop_env(expect(v.st, ")"))
      last == v.v[Len(v.v)]
      node == new_node(s1, "ND_STMT_EXPR", t)
  IN CASE Failed(s0) -> R(s0, ErrNode)
       [] ~v.ok      -> R(v.st, ErrNode)
       [] Failed(s1) -> R(s1, ErrNode)
       [] last.op # "ND_EXPR_STMT" ->
            R(bad_token(s1, last, "statement expression returning void"), ErrNode)
       [] OTHER ->
            R(node.st, node.v @@ [stmts |-> SubSeq(v.v, 1, Len(v.v) - 1),
                                  expr |-> last.expr])

stmt_typedef(s, t) ==
  LET node == call("declaration_type", s, NULL)
  IN IF node.ok
     THEN R(map_put(node.st, node.st.envs[node.st.env].typedefs, node.v.name, node.v.ty),
            null_stmt)
     ELSE node

stmt_if(s, t) ==
  LET node == new_node(s, "ND_IF", t)
      cond == call("expr", expect(node.st, "("), NULL)
      then == call("stmt", expect(cond.st, ")"), NULL)
      c    == consume(then.st, "TK_ELSE")
      els  == call("stmt", c.st, NULL)
  IN CASE ~cond.ok -> cond
       [] ~then.ok -> then
       [] ~c.v     -> R(c.st, node.v @@ [cond |-> cond.v, then |-> then.v])
       [] ~els.ok  -> els
       [] OTHER    -> R(els.st, node.v @@ [cond |-> cond.v, then |-> then.v,
                                           els |-> els.v])

stmt_for(s, t) ==
  LET node == new_node(s, "ND_FOR", t)
      s1   == vec_push(vec_push(push_env(expect(node.st, "(")), "breaks", node.v.id),
                       "continues", node.v.id)
      \* `if (is_typename()) init = declaration();
      \*  else if (!consume(';')) init = expr_stmt();`
      \* The value is the field of the node that the clause sets, if any.
      for_init(s0) ==
        LET c == consume(s0, ";")
            i == IF is_typename(s0) THEN call("declaration", s0, NULL)
                 ELSE call("expr_stmt", c.st, NULL)
        IN IF ~is_typename(s0) /\ c.v THEN R(c.st, <<>>) ELSE R(i.st, [init |-> i.v])
      \* `if (!consume(';')) { cond = expr(); expect(';'); }`
      for_cond(s0) ==
        LET c == consume(s0, ";")
            e == call("expr", c.st, NULL)
        IN CASE c.v   -> R(c.st, <<>>)
             [] ~e.ok -> R(e.st, <<>>)
             [] OTHER -> R(expect(e.st, ";"), [cond |-> e.v])
      \* `if (!consume(')')) { inc = expr(); expect(')'); }`
      for_inc(s0) ==
        LET c == consume(s0, ")")
            e == call("expr", c.st, NULL)
        IN CASE c.v   -> R(c.st, <<>>)
             [] ~e.ok -> R(e.st, <<>>)
             [] OTHER -> R(expect(e.st, ")"), [inc |-> e.v])
      init == for_init(s1)
      cond == for_cond(init.st)
      inc  == for_inc(cond.st)
      body == call("stmt", inc.st, NULL)
      s2   == pop_env(vec_pop(vec_pop(body.st, "breaks"), "continues"))
  IN CASE Failed(s1) -> R(s1, ErrNode)
       [] ~init.ok   -> R(init.st, ErrNode)
       [] ~cond.ok   -> R(cond.st, ErrNode)
       [] ~inc.ok    -> R(inc.st, ErrNode)
       [] ~body.ok   -> body
       [] Failed(s2) -> R(s2, ErrNode)
       [] OTHER      -> R(s2, node.v @@ init.v @@ cond.v @@ inc.v @@ [body |-> body.v])

stmt_while(s, t) ==
  LET node == new_node(s, "ND_FOR", t)
      s1   == vec_push(vec_push(node.st, "breaks", node.v.id), "continues", node.v.id)
      cond == call("expr", expect(s1, "("), NULL)
      body == call("stmt", expect(cond.st, ")"), NULL)
      s2   == vec_pop(vec_pop(body.st, "breaks"), "continues")
  IN CASE Failed(s1) -> R(s1, ErrNode)
       [] ~cond.ok   -> cond
       [] ~body.ok   -> body
       [] Failed(s2) -> R(s2, ErrNode)
       [] OTHER      -> R(s2, node.v @@ [cond |-> cond.v, body |-> body.v])

stmt_do(s, t) ==
  LET node == new_node(s, "ND_DO_WHILE", t)
      s1   == vec_push(vec_push(node.st, "breaks", node.v.id), "continues", node.v.id)
      body == call("stmt", s1, NULL)
      cond == call("expr", expect(expect(body.st, "TK_WHILE"), "("), NULL)
      s2   == expect(expect(cond.st, ")"), ";")
      s3   == vec_pop(vec_pop(s2, "breaks"), "continues")
  IN CASE Failed(s1) -> R(s1, ErrNode)
       [] ~body.ok   -> body
       [] ~cond.ok   -> cond
       [] Failed(s3) -> R(s3, ErrNode)
       [] OTHER      -> R(s3, node.v @@ [cond |-> cond.v, body |-> body.v])

\* The ids of the case nodes pushed onto the cases of switch node id.
CasesOf(s, id) ==
  LET mine == SelectSeq(s.cases, LAMBDA c : c.sw = id)
  IN [i \in 1..Len(mine) |-> mine[i].node]

stmt_switch(s, t) ==
  LET node == new_node(s, "ND_SWITCH", t)
      cond == call("expr", expect(node.st, "("), NULL)
      s1   == vec_push(vec_push(expect(cond.st, ")"), "breaks", node.v.id),
                       "switches", node.v.id)
      body == call("stmt", s1, NULL)
      s2   == vec_pop(vec_pop(body.st, "breaks"), "switches")
  IN CASE ~cond.ok   -> cond
       [] Failed(s1) -> R(s1, ErrNode)
       [] ~body.ok   -> body
       [] Failed(s2) -> R(s2, ErrNode)
       [] OTHER      -> R(s2, node.v @@ [cases |-> CasesOf(s2, node.v.id),
                                         cond |-> cond.v, body |-> body.v])

stmt_case(s, t) ==
  LET node == new_node(s, "ND_CASE", t)
      val  == call("const_expr", node.st, NULL)
      body == call("stmt", expect(val.st, ":"), NULL)
      n    == vec_last(body.st, "switches")
  IN CASE Failed(s)        -> R(s, ErrNode)
       [] s.switches.null  -> R(assert_fail(s, "SIGSEGV: switches"), ErrNode)
       [] vec_empty(s, "switches") -> R(bad_token(s, t, "stray case"), ErrNode)
       [] ~val.ok          -> R(val.st, ErrNode)
       [] ~body.ok         -> body
       [] OTHER ->
            R([body.st EXCEPT !.cases = Append(@, [sw |-> n, node |-> node.v.id])],
              node.v @@ [val |-> val.v, body |-> body.v])

stmt_break(s, t) ==
  CASE Failed(s)      -> R(s, ErrNode)
    [] s.breaks.null  -> R(assert_fail(s, "SIGSEGV: breaks"), ErrNode)
    [] vec_empty(s, "breaks") -> R(bad_token(s, t, "stray break"), ErrNode)
    [] OTHER ->
         LET node == new_node(s, "ND_BREAK", t)
         IN R(node.st, node.v @@ [target |-> vec_last(s, "breaks")])

stmt_continue(s, t) ==
  CASE Failed(s)         -> R(s, ErrNode)
    [] s.continues.null  -> R(assert_fail(s, "SIGSEGV: continues"), ErrNode)
    [] vec_empty(s, "continues") -> R(bad_token(s, t, "stray continue"), ErrNode)
    [] OTHER ->
         LET node == new_node(s, "ND_CONTINUE", t)
         IN R(node.st, node.v @@ [target |-> vec_last(s, "breaks")])

stmt_return(s, t) ==
  LET node == new_node(s, "ND_RETURN", t)
      e    == call("expr", node.st, NULL)
  IN IF e.ok THEN R(expect(e.st, ";"), node.v @@ [expr |-> e.v]) ELSE e

stmt_block(s, t) ==
  LET s0   == push_env(s)
      node == call("compound_stmt", s0, NULL)
  IN CASE Failed(s0) -> R(s0, ErrNode)
       [] ~node.ok   -> node
       [] OTHER      -> R(pop_env(node.st), node.v)

stmt(s) ==
  LET g == get(s)
      t == g.v
  IN CASE t.ty = "TK_TYPEDEF"  -> stmt_typedef(g.st, t)
       [] t.ty = "TK_IF"       -> stmt_if(g.st, t)
       [] t.ty = "TK_FOR"      -> stmt_for(g.st, t)
       [] t.ty = "TK_WHILE"    -> stmt_while(g.st, t)
       [] t.ty = "TK_DO"       -> stmt_do(g.st, t)
       [] t.ty = "TK_SWITCH"   -> stmt_switch(g.st, t)
       [] t.ty = "TK_CASE"     -> stmt_case(g.st, t)
       [] t.ty = "TK_BREAK"    -> stmt_break(g.st, t)
       [] t.ty = "TK_CONTINUE" -> stmt_continue(g.st, t)
       [] t.ty = "TK_RETURN"   -> stmt_return(g.st, t)
       [] t.ty = "{"           -> stmt_block(g.st, t)
       [] t.ty = ";"           -> R(g.st, null_stmt)
       [] Failed(s)            -> R(s, ErrNode)
       [] OTHER ->
            LET s1 == unget(g.st, t)
            IN IF is_typename(s1) THEN declaration(s1) ELSE expr_stmt(s1)

\* `while (!consume('}')) vec_push(node->stmts, stmt());`
compound_stmt_loop(s, stmts) ==
  LET c == consume(s, "}")
  IN IF Failed(s) \/ c.v THEN R(c.st, stmts)
     ELSE LET n == call("stmt", c.st, NULL)
          IN IF n.ok THEN compound_stmt_loop(n.st, Append(stmts, n.v))
             ELSE R(n.st, stmts)

compound_stmt(s) ==
  LET t     == peek(s)
      node  == new_node(s, "ND_COMP_STMT", t)
      stmts == compound_stmt_loop(node.st, <<>>)
  IN IF stmts.ok THEN R(stmts.st, node.v @@ [stmts |-> stmts.v])
     ELSE R(stmts.st, ErrNode)

---------------------------------------------------------------------------
(* Toplevel driver (parse.c:918-1013)                                      *)

RECURSIVE toplevel_params(_, _)
\* `while (!consume(')'))` over the parameter declarations.
toplevel_params(s, params) ==
  LET c == consume(s, ")")
  IN IF Failed(s) \/ c.v THEN R(c.st, params)
     ELSE LET s1 == IF Len(params) > 0 THEN expect(c.st, ",") ELSE c.st
              p  == call("param_declaration", s1, NULL)
          IN IF p.ok THEN toplevel_params(p.st, Append(params, p.v))
             ELSE R(p.st, params)

RECURSIVE bind_params(_, _, _)
\* `for (i...) { add_var(params->data[i]); alloc_local_storage(params->data[i]); }`
bind_params(s, params, i) ==
  IF i > Len(params) THEN s
  ELSE bind_params(alloc_local_storage(add_var(s, params[i]), params[i]), params, i + 1)

\* The function definition branch of toplevel (parse.c:941-976).
function_definition(s, ty, name, params, is_typedef) ==
  LET s1    == [s EXCEPT !.vecs = Append(@, <<>>), !.lvars = Len(s.vecs) + 1,
                         !.breaks = new_vec, !.continues = new_vec,
                         !.switches = new_vec]
      funty == alloc_type(s1, [ZeroType EXCEPT !.ty = "FUNC", !.returning = ty])
      fvar  == new_var(funty.st, funty.v, name, FALSE, "")
      s2    == add_var(fvar.st, fvar.v)
      t     == peek(s2)
      node  == new_node(s2, "ND_FUNC", t)
      s3    == expect(node.st, "{")
      s4    == IF is_typedef THEN bad_token(s3, t, "typedef has function definition")
               ELSE s3
      s5    == bind_params(push_env(s4), params, 1)
      body  == call("compound_stmt", s5, NULL)
      s6    == pop_env(body.st)
      fn    == [name |-> name,
                node |-> node.v @@ [name |-> name, params |-> params, ty |-> funty.v,
                                    body |-> body.v],
                lvars |-> s6.lvars, bbs |-> <<>>]
  IN CASE Failed(s2) -> s2
       [] Failed(s4) -> s4
       [] Failed(s5) -> s5
       [] ~body.ok   -> body.st
       [] Failed(s6) -> s6
       [] OTHER      -> [s6 EXCEPT !.prog.funcs = Append(@, fn)]

toplevel(s) ==
  LET td     == consume(s, "TK_TYPEDEF")
      ex     == consume(td.st, "TK_EXTERN")
      ty0    == call("decl_specifiers", ex.st, NULL)
      ty     == declarator_stars(ty0.st, ty0.v)
      name   == ident(ty.st)
      c      == consume(name.st, "(")
      params == toplevel_params(c.st, <<>>)
      proto  == consume(params.st, ";")
      a      == read_array(c.st, ty.v)
      s1     == expect(a.st, ";")
      var    == new_var(s1, a.v, name.v, FALSE, "")
      s2     == add_var(var.st, var.v)
  IN CASE ~ty0.ok  -> ty0.st
       [] ~name.ok -> name.st
       [] c.v ->
            \* Function prototype or definition
            CASE ~params.ok -> params.st
              [] proto.v    -> proto.st
              [] OTHER      -> function_definition(proto.st, ty.v, name.v, params.v, td.v)
       [] ~a.ok      -> a.st
       [] Failed(s1) -> s1
       [] td.v       -> map_put(s1, s1.envs[s1.env].typedefs, name.v, a.v)
       \* Global variable
       [] ~ex.v      -> alloc_global_storage(s2, var.v)
       [] OTHER      -> s2

\* The call of the parsing function named fn on the state s; a is the
\* second argument of the functions that have one.
call(fn, s, a) ==
  CASE fn = "assign"            -> assign(s)
    [] fn = "expr"              -> expr(s)
    [] fn = "unary"             -> unary(s)
    [] fn = "mul"               -> mul(s)
    [] fn = "add"               -> add(s)
    [] fn = "shift"             -> shift(s)
    [] fn = "relational"        -> relational(s)
    [] fn = "equality"          -> equality(s)
    [] fn = "bit_and"           -> bit_and(s)
    [] fn = "bit_xor"           -> bit_xor(s)
    [] fn = "bit_or"            -> bit_or(s)
    [] fn = "logand"            -> logand(s)
    [] fn = "logor"             -> logor(s)
    [] fn = "conditional"       -> conditional(s)
    [] fn = "const_expr"        -> const_expr(s)
    [] fn = "declaration_type"  -> declaration_type(s)
    [] fn = "decl_specifiers"   -> decl_specifiers(s)
    [] fn = "declarator"        -> declarator(s, a)
    [] fn = "declaration"       -> declaration(s)
    [] fn = "param_declaration" -> param_declaration(s)
    [] fn = "expr_stmt"         -> expr_stmt(s)
    [] fn = "stmt"              -> stmt(s)
    [] fn = "compound_stmt"     -> compound_stmt(s)
    [] fn = "toplevel"          -> toplevel(s)

is_eof(s) == peek(s).ty = "TK_EOF"

\* parse() up to its loop: the assignments of parse.c:1002-1008.
parse_begin(s, tokens_) ==
  LET s1 == [s EXCEPT !.tokens = tokens_, !.pos = 0]
      e  == new_env(s1, NULL)
  IN [e.st EXCEPT !.env = e.v,
                  !.prog = [null |-> FALSE, gvars |-> <<>>, funcs |-> <<>>]]

---------------------------------------------------------------------------
(* parse() as one function, and the lexer's output for a sequence of       *)
(* source words (token.c is not part of the model: the table gives the     *)
(* token kind of each word the inputs use).                                *)

RECURSIVE parse_loop(_)
\* `while (!is_eof()) toplevel();`
parse_loop(s) == IF Failed(s) \/ is_eof(s) THEN s ELSE parse_loop(toplevel(s))

parse(s, tokens_) == parse_loop(parse_begin(s, tokens_))

Keywords ==
  [w \in {"int", "char", "void", "_Bool", "struct", "typedef", "extern", "if", "else",
          "for", "while", "do", "switch", "case", "break", "continue", "return",
          "sizeof", "_Alignof", "typeof"} |->
     CASE w = "int" -> "TK_INT" [] w = "char" -> "TK_CHAR" [] w = "void" -> "TK_VOID"
       [] w = "_Bool" -> "TK_BOOL" [] w = "struct" -> "TK_STRUCT"
       [] w = "typedef" -> "TK_TYPEDEF" [] w = "extern" -> "TK_EXTERN"
       [] w = "if" -> "TK_IF" [] w = "else" -> "TK_ELSE" [] w = "for" -> "TK_FOR"
       [] w = "while" -> "TK_WHILE" [] w = "do" -> "TK_DO" [] w = "switch" -> "TK_SWITCH"
       [] w = "case" -> "TK_CASE" [] w = "break" -> "TK_BREAK"
       [] w = "continue" -> "TK_CONTINUE" [] w = "return" -> "TK_RETURN"
       [] w = "sizeof" -> "TK_SIZEOF" [] w = "_Alignof" -> "TK_ALIGNOF"
       [] w = "typeof" -> "TK_TYPEOF"]

Symbols ==
  [w \in {"++", "--", "->", "<<", ">>", "<=", ">=", "==", "!=", "&&", "||", "*=", "/=",
          "%=", "+=", "-=", "<<=", ">>=", "&=", "^=", "|="} |->
     CASE w = "++" -> "TK_INC" [] w = "--" -> "TK_DEC" [] w = "->" -> "TK_ARROW"
       [] w = "<<" -> "TK_SHL" [] w = ">>" -> "TK_SHR" [] w = "<=" -> "TK_LE"
       [] w = ">=" -> "TK_GE" [] w = "==" -> "TK_EQ" [] w = "!=" -> "TK_NE"
       [] w = "&&" -> "TK_LOGAND" [] w = "||" -> "TK_LOGOR" [] w = "*=" -> "TK_MUL_EQ"
       [] w = "/=" -> "TK_DIV_EQ" [] w = "%=" -> "TK_MOD_EQ" [] w = "+=" -> "TK_ADD_EQ"
       [] w = "-=" -> "TK_SUB_EQ" [] w = "<<=" -> "TK_SHL_EQ" [] w = ">>=" -> "TK_SHR_EQ"
       [] w = "&=" -> "TK_AND_EQ" [] w = "^=" -> "TK_XOR_EQ" [] w = "|=" -> "TK_OR_EQ"]

Punctuators ==
  {"(", ")", "{", "}", "[", "]", ";", ",", ".", "?", ":", "=", "+", "-", "*", "/", "%",
   "<", ">", "&", "^", "|", "!", "~"}

Digits == [w \in {"0", "1", "2", "3", "4", "5", "6", "7", "8", "9"} |->
             CASE w = "0" -> 0 [] w = "1" -> 1 [] w = "2" -> 2 [] w = "3" -> 3
               [] w = "4" -> 4 [] w = "5" -> 5 [] w = "6" -> 6 [] w = "7" -> 7
               [] w = "8" -> 8 [] w = "9" -> 9]

\* The words that stand for string literals, with their contents.
Literals == [w \in {"\"a\"", "\"bc\""} |-> IF w = "\"a\"" THEN "a" ELSE "bc"]

LexWord(w) ==
  IF w \in DOMAIN Keywords THEN Tok(Keywords[w])
  ELSE IF w \in DOMAIN Symbols THEN Tok(Symbols[w])
  ELSE IF w \in Punctuators THEN Tok(w)
  ELSE IF w \in DOMAIN Digits THEN Num(Digits[w])
  ELSE IF w \in DOMAIN Literals THEN Str(Literals[w])
  ELSE Id(w)

Lex(words) == [i \in 1..Len(words) |-> LexWord(words[i])] \o <<EofTok>>

---------------------------------------------------------------------------
(* The caller of the parser.  parse() is one call; its loop                *)
(* `while (!is_eof()) toplevel();` is taken one iteration at a time.  A    *)
(* fatal error ends the process: pc becomes "exit" and st keeps the state  *)
(* before the failing step together with the message and the warnings      *)
(* printed up to the error.  input holds the                               *)
(* source, as words, of the call in progress or last made, and the         *)
(* description the source was written from; ghost.calls is the number of   *)
(* calls made so far.                                                      *)

Exit(s, failed) == [s EXCEPT !.err = failed.err, !.warns = failed.warns]

InitParse ==
  /\ st = InitSt
  /\ pc = "idle"
  /\ ret = NullProg
  /\ input = [words |-> <<>>, desc |-> <<>>]
  /\ ghost = [calls |-> 0]

\* The first call of parse() in the process.
ParseCall(words, desc) ==
  /\ pc = "idle"
  /\ st' = parse_begin(st, Lex(words))
  /\ pc' = "parsing"
  /\ input' = [words |-> words, desc |-> desc]
  /\ ghost' = [ghost EXCEPT !.calls = @ + 1]
  /\ UNCHANGED ret

Toplevel ==
  /\ pc = "parsing"
  /\ ~is_eof(st)
  /\ \E s1 \in {call("toplevel", st, NULL)} :
        /\ st' = IF Failed(s1) THEN Exit(st, s1) ELSE s1
        /\ pc' = IF Failed(s1) THEN "exit" ELSE "parsing"
  /\ UNCHANGED <<ret, input, ghost>>

ParseReturn ==
  /\ pc = "parsing"
  /\ is_eof(st)
  /\ ret' = st.prog
  /\ pc' = "done"
  /\ UNCHANGED <<st, input, ghost>>

---------------------------------------------------------------------------
(* Scope environment on its own: push_env, pop_env, add_var and            *)
(* local_variable applied in any order a parse can apply them, that is     *)
(* with the root frame of parse() in place and never popped.  ghost.scopes *)
(* is the specification's view of the scopes: one map per active frame,    *)
(* from the root.                                                          *)

MaxEnvs == 4
MaxVars == 3
MaxRefs == 2
Names == {"x", "y"}

NoBinding == [n \in Names |-> NULL]

RECURSIVE Chain(_, _)
\* The frames from the root to frame e.
Chain(s, e) == IF e = NULL THEN <<>> ELSE Append(Chain(s, s.envs[e].prev), e)

InitEnv ==
  /\ st = parse_begin(InitSt, <<EofTok>>)
  /\ pc = "env"
  /\ ret = [kind |-> "none"]
  /\ input = <<>>
  /\ ghost = [scopes |-> <<NoBinding>>, expect |-> NULL, popped |-> {}]

EnvPush ==
  /\ pc = "env"
  /\ Len(st.envs) < MaxEnvs
  /\ st' = push_env(st)
  /\ ghost' = [ghost EXCEPT !.scopes = Append(@, NoBinding)]
  /\ ret' = [kind |-> "push"]
  /\ UNCHANGED <<pc, input>>

\* popped collects the names whose inner binding hid an outer one when the
\* frame was popped.
EnvPop ==
  /\ pc = "env"
  /\ Len(ghost.scopes) > 1
  /\ st' = pop_env(st)
  /\ LET n   == Len(ghost.scopes)
         top == ghost.scopes[n]
     IN ghost' = [ghost EXCEPT
                    !.scopes = SubSeq(@, 1, n - 1),
                    !.popped = {x \in Names : /\ top[x] # NULL
                                              /\ \E i \in 1..(n - 1) : ghost.scopes[i][x] # NULL}]
  /\ ret' = [kind |-> "pop"]
  /\ UNCHANGED <<pc, input>>

\* A declaration: new_var() then add_var(), as in declaration().
EnvAddVar ==
  /\ pc = "env"
  /\ Len(st.vars) < MaxVars
  /\ \E name \in Names :
       LET var == new_var(st, NULL, name, TRUE, "")
       IN /\ st' = add_var(var.st, var.v)
          /\ ghost' = [ghost EXCEPT !.scopes[Len(ghost.scopes)][name] = var.v]
  /\ ret' = [kind |-> "add"]
  /\ UNCHANGED <<pc, input>>

\* A reference: local_variable().
EnvRef ==
  /\ pc = "env"
  /\ st.nnode < MaxRefs
  /\ \E name \in Names :
       LET n   == local_variable(st, Id(name))
           idx == {i \in 1..Len(ghost.scopes) : ghost.scopes[i][name] # NULL}
       IN /\ st' = IF Failed(n.st) THEN Exit(st, n.st) ELSE [st EXCEPT !.nnode = n.st.nnode]
          /\ pc' = IF Failed(n.st) THEN "exit" ELSE "env"
          /\ ret' = [kind |-> "ref", name |-> name,
                     var |-> IF Failed(n.st) THEN NULL ELSE n.v.var]
          /\ ghost' = [ghost EXCEPT !.expect =
                         IF idx = {} THEN NULL
                         ELSE ghost.scopes[CHOOSE i \in idx : \A j \in idx : j <= i][name]]
  /\ UNCHANGED input

NextEnv == EnvPush \/ EnvPop \/ EnvAddVar \/ EnvRef

SpecEnv == InitEnv /\ [][NextEnv]_vars

\* The binding of name in the innermost of the frames scopes declares it in.
RefLookup(scopes, name) ==
  LET idx == {i \in 1..Len(scopes) : scopes[i][name] # NULL}
  IN IF idx = {} THEN NULL
     ELSE scopes[CHOOSE i \in idx : \A j \in idx : j <= i][name]

\* C1: find_var(x) is the binding of x in the innermost frame of the
\* current chain that declares x, seen from the current frame and from
\* every enclosing frame (so that popping a frame gives back what the
\* enclosing frame saw); a reference returns that Var, and is the fatal
\* error "undefined variable" exactly when no frame declares x.
C1_FindVarInnermost ==
  /\ pc = "env" =>
       LET chain == Chain(st, st.env)
       IN /\ Len(chain) = Len(ghost.scopes)
          /\ \A k \in 1..Len(chain) : \A x \in Names :
               find_in(st, chain[k], "vars", x) = RefLookup(SubSeq(ghost.scopes, 1, k), x)
          /\ \A x \in Names : find_var(st, x) = RefLookup(ghost.scopes, x)
  /\ ret.kind = "ref" =>
       /\ ret.var = ghost.expect
       /\ (pc = "exit") = (ghost.expect = NULL)
       /\ pc = "exit" => st.err = "undefined variable"

\* A reference made after a frame that hid x was popped found the outer x.
C1_Witness ==
  /\ pc = "env"
  /\ ret.kind = "ref"
  /\ ret.name \in ghost.popped
  /\ ret.var # NULL
  /\ ret.var = ghost.scopes[1][ret.name]

---------------------------------------------------------------------------
(* Struct declarations.  The inputs are the programs that declare one      *)
(* variable of a struct type with up to MaxMembers members, each a char,   *)
(* an int, a pointer, an array or a nested struct; the programs that       *)
(* declare `struct S` with a body at file scope and again, with another    *)
(* body, in the block of a function; and the programs that declare a       *)
(* variable, a parameter or a member of a struct type that has no body.    *)

MaxMembers == 3
MaxRedefMembers == 2

MemberKinds == {"char", "int", "ptr", "ary", "struct"}

\* The declaration of member number i, of the given kind.
MemberWords(kind, i) ==
  LET name == "m" \o ToString(i)
  IN CASE kind = "char"   -> <<"char", name, ";">>
       [] kind = "int"    -> <<"int", name, ";">>
       [] kind = "ptr"    -> <<"int", "*", name, ";">>
       [] kind = "ary"    -> <<"char", name, "[", "3", "]", ";">>
       [] kind = "struct" -> <<"struct", "{", "int", "a", ";", "char", "b", ";", "}",
                               name, ";">>

RECURSIVE BodyWords(_, _)
BodyWords(kinds, i) ==
  IF i > Len(kinds) THEN <<>>
  ELSE MemberWords(kinds[i], i) \o BodyWords(kinds, i + 1)

\* `struct tag { members } var ;`
StructWords(tag, kinds, var) ==
  <<"struct">> \o tag \o <<"{">> \o BodyWords(kinds, 1) \o <<"}", var, ";">>

KindSeqs(lo, hi) == UNION {[1..k -> MemberKinds] : k \in lo..hi}

StructPrograms ==
  {StructWords(tag, kinds, "x") : tag \in {<<>>, <<"S">>}, kinds \in KindSeqs(0, MaxMembers)}

RedefPrograms ==
  {StructWords(<<"S">>, k1, "x") \o <<"int", "f", "(", ")", "{">>
     \o StructWords(<<"S">>, k2, "y") \o <<"}">> :
   k1 \in KindSeqs(1, MaxRedefMembers), k2 \in KindSeqs(1, MaxRedefMembers)}

IncompletePrograms ==
  {<<"struct", "T", "x", ";">>,
   <<"struct", "T", "*", "p", ";">>,
   <<"struct", "T", "*", "p", ";", "struct", "T", "x", ";">>,
   <<"struct", "T", "{", "int", "a", ";", "}", "x", ";", "struct", "T", "y", ";">>,
   <<"int", "f", "(", "struct", "T", "a", ")", "{", "}">>,
   <<"int", "f", "(", "struct", "T", "*", "a", ")", "{", "}">>,
   <<"int", "f", "(", ")", "{", "struct", "T", "x", ";", "}">>,
   <<"int", "f", "(", ")", "{", "struct", "T", "*", "x", ";", "}">>,
   <<"struct", "S", "{", "struct", "T", "m", ";", "}", "x", ";">>,
   <<"struct", "S", "{", "struct", "T", "*", "m", ";", "}", "x", ";">>}

NextStruct ==
  \/ \E p \in StructPrograms \cup RedefPrograms \cup IncompletePrograms :
       ParseCall(p, <<>>)
  \/ Toplevel
  \/ ParseReturn

SpecStruct == InitParse /\ [][NextStruct]_vars

\* The struct types that have a body.
StructTypes(s) ==
  {i \in 1..Len(s.types) : s.types[i].ty = "STRUCT" /\ s.types[i].members # NULL}

\* The types of the members of struct type i, in declaration order.
MembersOf(s, i) == s.maps[s.types[i].members].vals

MaxOf(S) == IF S = {} THEN 0 ELSE CHOOSE x \in S : \A y \in S : y <= x

Multiple(x, a) == IF a = 0 THEN x = 0 ELSE x % a = 0

LayoutOK(s, i) ==
  LET ms   == MembersOf(s, i)
      m(k) == s.types[ms[k]]
      max  == MaxOf({m(k).align : k \in 1..Len(ms)})
  IN /\ \A a, b \in 1..Len(ms) : a <= b => m(a).offset <= m(b).offset
     /\ \A a \in 1..Len(ms) : Multiple(m(a).offset, m(a).align)
     /\ s.types[i].align = max
     /\ Multiple(s.types[i].size, s.types[i].align)
     /\ fix_struct_offsets(s, i) = s

\* C2: after fix_struct_offsets, for every struct type with a body, the
\* member offsets are non-decreasing in declaration order, each offset is
\* a multiple of its member's alignment, the struct's alignment is the
\* maximum member alignment, its size is a multiple of its alignment, and
\* fix_struct_offsets run again changes nothing.
C2_StructLayout == \A i \in StructTypes(st) : LayoutOK(st, i)

\* The type ty is a struct without a member list.
Incomplete(s, ty) ==
  ty # NULL /\ s.types[ty].ty = "STRUCT" /\ s.types[ty].members = NULL

\* The Vars of the Program: globals, and each function's locals and parameters.
ProgramVars(s) ==
  {s.prog.gvars[i] : i \in 1..Len(s.prog.gvars)}
  \cup UNION {{s.vecs[s.prog.funcs[f].lvars][i] : i \in 1..Len(s.vecs[s.prog.funcs[f].lvars])} :
              f \in 1..Len(s.prog.funcs)}
  \cup UNION {{s.prog.funcs[f].node.params[i] : i \in 1..Len(s.prog.funcs[f].node.params)} :
              f \in 1..Len(s.prog.funcs)}

\* C8: a parse that declares a variable, a parameter or a struct member
\* whose type is, by value, a struct without a body ends in a fatal error:
\* in a returned Program no Var and no struct member has such a type
\* (pointers to such a struct are accepted).
C8_IncompleteStructRejected ==
  pc = "done" =>
    /\ \A v \in ProgramVars(st) : ~Incomplete(st, st.vars[v].ty)
    /\ \A i \in StructTypes(st) :
         \A k \in 1..Len(MembersOf(st, i)) : ~Incomplete(st, MembersOf(st, i)[k])

---------------------------------------------------------------------------
(* Control statements.  A statement is described by the constructs that    *)
(* wrap it, outermost first, and the statement at the core:                *)
(* <<"while", "switch", "continue">> is `while (1) switch (1) continue;`.  *)
(* A program is described by its functions, a function by its statements.  *)
(* The inputs are the one-statement functions with up to MaxNest wrappers,  *)
(* and the two-statement functions and two-function programs with up to    *)
(* MaxSeqNest wrappers per statement.                                       *)

MaxNest == 3
MaxSeqNest == 1

Wrappers == {"while", "do", "for", "switch", "case"}
Leaves == {"break", "continue", "null"}

Paths(n) ==
  UNION {{w \o <<l>> : w \in [1..k -> Wrappers], l \in Leaves} : k \in 0..n}

RECURSIVE StmtWords(_)
StmtWords(p) ==
  LET h == Head(p)
  IN CASE h = "break"    -> <<"break", ";">>
       [] h = "continue" -> <<"continue", ";">>
       [] h = "null"     -> <<";">>
       [] h = "while"    -> <<"while", "(", "1", ")">> \o StmtWords(Tail(p))
       [] h = "do"       -> <<"do">> \o StmtWords(Tail(p)) \o <<"while", "(", "1", ")", ";">>
       [] h = "for"      -> <<"for", "(", ";", ";", ")">> \o StmtWords(Tail(p))
       [] h = "switch"   -> <<"switch", "(", "1", ")">> \o StmtWords(Tail(p))
       [] h = "case"     -> <<"case", "1", ":">> \o StmtWords(Tail(p))

RECURSIVE BlockWords(_)
BlockWords(stmts) ==
  IF stmts = <<>> THEN <<>> ELSE StmtWords(Head(stmts)) \o BlockWords(Tail(stmts))

FuncWords(name, stmts) == <<"int", name, "(", ")", "{">> \o BlockWords(stmts) \o <<"}">>

ProgWords(desc) ==
  FuncWords("f", desc[1]) \o (IF Len(desc) > 1 THEN FuncWords("g", desc[2]) ELSE <<>>)

CtlDescs ==
  {<< <<p>> >> : p \in Paths(MaxNest)}
  \cup {<< <<p, q>> >> : p \in Paths(MaxSeqNest), q \in Paths(MaxSeqNest)}
  \cup {<< <<p>>, <<q>> >> : p \in Paths(MaxSeqNest), q \in Paths(MaxSeqNest)}

NextCtl ==
  \/ \E d \in CtlDescs : ParseCall(ProgWords(d), d)
  \/ Toplevel
  \/ ParseReturn

SpecCtl == InitParse /\ [][NextCtl]_vars

RECURSIVE PathErr(_, _, _)
\* The stray statement of a described statement, "" when it has none:
\* loops and switches count the wrappers passed so far.
PathErr(p, loops, switches) ==
  LET h == Head(p)
  IN CASE h \in {"while", "do", "for"} -> PathErr(Tail(p), loops + 1, switches)
       [] h = "switch"   -> PathErr(Tail(p), loops, switches + 1)
       [] h = "case"     -> IF switches = 0 THEN "stray case"
                            ELSE PathErr(Tail(p), loops, switches)
       [] h = "break"    -> IF loops + switches = 0 THEN "stray break" ELSE ""
       [] h = "continue" -> IF loops = 0 THEN "stray continue" ELSE ""
       [] h = "null"     -> ""

RECURSIVE FirstErr(_)
FirstErr(stmts) ==
  IF stmts = <<>> THEN ""
  ELSE LET e == PathErr(Head(stmts), 0, 0)
       IN IF e # "" THEN e ELSE FirstErr(Tail(stmts))

\* The error the first stray statement of the described program calls for.
ExpectedErr(desc) ==
  LET e == FirstErr(desc[1])
  IN IF e # "" \/ Len(desc) = 1 THEN e ELSE FirstErr(desc[2])

LoopOps == {"ND_FOR", "ND_DO_WHILE"}

RECURSIVE ContinuesOK(_, _)
\* Every continue under node targets the last of the enclosing loops.
ContinuesOK(node, loops) ==
  CASE node.op \in LoopOps -> ContinuesOK(node.body, Append(loops, node.id))
    [] node.op \in {"ND_SWITCH", "ND_CASE"} -> ContinuesOK(node.body, loops)
    [] node.op = "ND_COMP_STMT" ->
         \A i \in 1..Len(node.stmts) : ContinuesOK(node.stmts[i], loops)
    [] node.op = "ND_CONTINUE" -> loops # <<>> /\ node.target = loops[Len(loops)]
    [] OTHER -> TRUE

RECURSIVE OwnCases(_)
\* The case nodes under node that no switch under node encloses.
OwnCases(node) ==
  CASE node.op \in LoopOps -> OwnCases(node.body)
    [] node.op = "ND_CASE" -> {node.id} \cup OwnCases(node.body)
    [] node.op = "ND_COMP_STMT" -> UNION {OwnCases(node.stmts[i]) : i \in 1..Len(node.stmts)}
    [] OTHER -> {}

RECURSIVE BreaksOK(_, _, _)
\* Every break under node targets the last of the enclosing loops and
\* switches, every case is under a switch, and the case list of every
\* switch holds its own cases, each once.
BreaksOK(node, ctx, switches) ==
  CASE node.op \in LoopOps -> BreaksOK(node.body, Append(ctx, node.id), switches)
    [] node.op = "ND_SWITCH" ->
         /\ {node.cases[i] : i \in 1..Len(node.cases)} = OwnCases(node.body)
         /\ Len(node.cases) = Cardinality(OwnCases(node.body))
         /\ BreaksOK(node.body, Append(ctx, node.id), Append(switches, node.id))
    [] node.op = "ND_CASE" -> switches # <<>> /\ BreaksOK(node.body, ctx, switches)
    [] node.op = "ND_COMP_STMT" ->
         \A i \in 1..Len(node.stmts) : BreaksOK(node.stmts[i], ctx, switches)
    [] node.op = "ND_BREAK" -> ctx # <<>> /\ node.target = ctx[Len(ctx)]
    [] OTHER -> TRUE

\* C3: every continue of an accepted program targets the innermost
\* enclosing loop, whatever switches lie between or around; and the parse
\* ends in 'stray continue' exactly when the first stray statement of the
\* program is a continue with no enclosing loop.
C3_ContinueTargetsLoop ==
  /\ pc = "done" =>
       \A f \in 1..Len(ret.funcs) : ContinuesOK(ret.funcs[f].node.body, <<>>)
  /\ pc \in {"done", "exit"} =>
       ((st.err = "stray continue") <=> (ExpectedErr(input.desc) = "stray continue"))

\* C4: the parse ends in a fatal error exactly when the program has a
\* stray statement, with the error of the first one (a break outside every
\* loop and switch, a case outside every switch); in an accepted function
\* every break targets the innermost enclosing loop or switch and every
\* case is in the case list of the innermost enclosing switch; and between
\* functions the stacks are empty.
C4_StrayControl ==
  /\ pc = "exit" => st.err = ExpectedErr(input.desc)
  /\ pc = "done" => ExpectedErr(input.desc) = ""
  /\ pc \in {"parsing", "done"} =>
       \A f \in 1..Len(st.prog.funcs) : BreaksOK(st.prog.funcs[f].node.body, <<>>, <<>>)
  /\ (pc \in {"parsing", "done"} /\ st.prog.funcs # <<>>) =>
       /\ st.breaks.data = <<>>
       /\ st.continues.data = <<>>
       /\ st.switches.data = <<>>

---------------------------------------------------------------------------
(* Expressions.  Every input is `int f ( int x , int y ) { E ; }`, E       *)
(* being written from a description:                                       *)
(*   <<"chain", o1, .., ok>>   1 o1 2 o2 .. ok k+1, the operands being the *)
(*                             numbers 1.. in order, and the operator `?`  *)
(*                             at position i being written `? n :`, n the  *)
(*                             i-th of the last MaxOps digits;             *)
(*   <<"compound", l, op, r>>  l op r, op a compound assignment;           *)
(*   <<"postfix", l, op, form>> e op, op being ++ or --, and e the lvalue  *)
(*                             l written in the given form: l, ( l ) or    *)
(*                             ( * & l ).                                  *)

MaxOps == 3

BinaryWords ==
  {",", "=", "||", "&&", "|", "^", "&", "==", "!=", "<", ">", "<=", ">=", "<<", ">>",
   "+", "-", "*", "/", "%"}
ChainWordsSet == BinaryWords \cup {"?"}
CompoundWords == {"*=", "/=", "%=", "+=", "-=", "<<=", ">>=", "&=", "^=", "|="}
PostfixWords == {"++", "--"}
PostfixForms == {"name", "paren", "deref"}
ParamNames == {"x", "y"}

DigitWord == <<"1", "2", "3", "4", "5", "6", "7", "8", "9">>
MidWord(i) == DigitWord[Len(DigitWord) - MaxOps + i]

RECURSIVE ChainWords(_, _)
\* The words of the chain whose operators from position i on are ops.
ChainWords(ops, i) ==
  IF ops = <<>> THEN <<DigitWord[i]>>
  ELSE <<DigitWord[i]>>
       \o (IF Head(ops) = "?" THEN <<"?", MidWord(i), ":">> ELSE <<Head(ops)>>)
       \o ChainWords(Tail(ops), i + 1)

\* The words of the lvalue l in the given form.
OperandWords(form, l) ==
  CASE form = "name"  -> <<l>>
    [] form = "paren" -> <<"(", l, ")">>
    [] form = "deref" -> <<"(", "*", "&", l, ")">>

ExprWords(desc) ==
  CASE desc[1] = "chain"    -> ChainWords(Tail(desc), 1)
    [] desc[1] = "compound" -> <<desc[2], desc[3], desc[4]>>
    [] desc[1] = "postfix"  -> OperandWords(desc[4], desc[2]) \o <<desc[3]>>

ExprProgWords(desc) ==
  <<"int", "f", "(", "int", "x", ",", "int", "y", ")", "{">> \o ExprWords(desc) \o <<";", "}">>

ExprDescs ==
  {<<"chain">> \o ops : ops \in UNION {[1..k -> ChainWordsSet] : k \in 0..MaxOps}}
  \cup {<<"compound", l, op, r>> : l \in ParamNames, op \in CompoundWords,
                                   r \in ParamNames \cup {"2"}}
  \cup {<<"postfix", l, op, form>> : l \in ParamNames, op \in PostfixWords,
                                      form \in PostfixForms}

NextExpr ==
  \/ \E d \in ExprDescs : ParseCall(ExprProgWords(d), d)
  \/ Toplevel
  \/ ParseReturn

SpecExpr == InitParse /\ [][NextExpr]_vars

\* The expression of the first statement of the first function.
BodyExpr(prog) == prog.funcs[1].node.body.stmts[1].expr

\* The Var of the function's parameter of the given name.
ParamVar(s, prog, name) ==
  CHOOSE v \in {s.vecs[prog.funcs[1].lvars][i] : i \in 1..Len(s.vecs[prog.funcs[1].lvars])} :
    s.vars[v].name = name

(* The meaning of the nodes the desugarings are made of, on a memory that  *)
(* maps each Var to an integer; the address of a Var is its number.  seen  *)
(* lists the nodes in the order they are evaluated.                        *)

RECURSIVE Pow2(_)
Pow2(n) == IF n = 0 THEN 1 ELSE 2 * Pow2(n - 1)

RECURSIVE Bitwise(_, _, _)
\* op on the bits of the naturals a and b.
Bitwise(op, a, b) ==
  IF a = 0 /\ b = 0 THEN 0
  ELSE LET x == a % 2
           y == b % 2
           z == CASE op = "&" -> IF x = 1 /\ y = 1 THEN 1 ELSE 0
                  [] op = "|" -> IF x = 1 \/ y = 1 THEN 1 ELSE 0
                  [] op = "^" -> IF x # y THEN 1 ELSE 0
       IN z + 2 * Bitwise(op, a \div 2, b \div 2)

\* The value of the binary node kind op on naturals.
BinaryValue(op, a, b) ==
  CASE op = "+" -> a + b
    [] op = "-" -> a - b
    [] op = "*" -> a * b
    [] op = "/" -> a \div b
    [] op = "%" -> a % b
    [] op = "ND_SHL" -> a * Pow2(b)
    [] op = "ND_SHR" -> a \div Pow2(b)
    [] op \in {"&", "|", "^"} -> Bitwise(op, a, b)
    [] op = "ND_LOGAND" -> IF a # 0 /\ b # 0 THEN 1 ELSE 0
    [] op = "ND_LOGOR" -> IF a # 0 \/ b # 0 THEN 1 ELSE 0

RECURSIVE Eval(_, _), Lval(_, _), EvalStmts(_, _)

\* The address of the lvalue node.
Lval(node, m) ==
  LET m1 == [m EXCEPT !.seen = Append(@, node.id)]
  IN CASE node.op = "ND_VARREF" -> [m |-> m1, v |-> node.var]
       [] node.op = "ND_DEREF"  -> Eval(node.expr, m1)

\* The value of the node.
Eval(node, m) ==
  LET m1 == [m EXCEPT !.seen = Append(@, node.id)]
  IN CASE node.op = "ND_NUM"    -> [m |-> m1, v |-> node.val]
       [] node.op = "ND_VARREF" -> [m |-> m1, v |-> m1.mem[node.var]]
       [] node.op = "ND_ADDR"   -> Lval(node.expr, m1)
       [] node.op = "ND_DEREF"  ->
            LET p == Eval(node.expr, m1) IN [m |-> p.m, v |-> p.m.mem[p.v]]
       [] node.op = "=" ->
            LET a == Lval(node.lhs, m1)
                r == Eval(node.rhs, a.m)
            IN [m |-> [r.m EXCEPT !.mem[a.v] = r.v], v |-> r.v]
       [] node.op = "ND_STMT_EXPR" -> Eval(node.expr, EvalStmts(node.stmts, m1))
       [] node.op = "ND_EXPR_STMT" -> Eval(node.expr, m1)
       [] OTHER ->
            LET l == Eval(node.lhs, m1)
                r == Eval(node.rhs, l.m)
            IN [m |-> r.m, v |-> BinaryValue(node.op, l.v, r.v)]

EvalStmts(stmts, m) ==
  IF stmts = <<>> THEN m ELSE EvalStmts(Tail(stmts), Eval(Head(stmts), m).m)

\* The values the parameters hold when the expression is evaluated.
Values == {1, 3, 6}

\* The memory in which x holds v, y holds w and every other Var holds 0.
Memory(s, v, w) ==
  [mem  |-> [i \in 1..Len(s.vars) |->
               CASE s.vars[i].name = "x" -> v
                 [] s.vars[i].name = "y" -> w
                 [] OTHER -> 0],
   seen |-> <<>>]

\* How often the node was evaluated.
TimesSeen(m, node) == Cardinality({i \in 1..Len(m.seen) : m.seen[i] = node.id})

IsVarRef(node, var) == node.op = "ND_VARREF" /\ node.var = var
IsDerefOf(node, var) == node.op = "ND_DEREF" /\ IsVarRef(node.expr, var)
IsAssign(node) == node.op = "ND_EXPR_STMT" /\ node.expr.op = "="

\* The binary node kind of a compound assignment.
CompoundKind ==
  [w \in CompoundWords |->
     CASE w = "*=" -> "*" [] w = "/=" -> "/" [] w = "%=" -> "%" [] w = "+=" -> "+"
       [] w = "-=" -> "-" [] w = "<<=" -> "ND_SHL" [] w = ">>=" -> "ND_SHR"
       [] w = "&=" -> "&" [] w = "^=" -> "^" [] w = "|=" -> "|"]

\* The value of the right operand r of a described compound assignment.
OperandValue(r, v, w) == CASE r = "x" -> v [] r = "y" -> w [] OTHER -> Digits[r]

\* C5: `l op= r` is a statement expression that stores &l into one fresh
\* local temporary ptr, of type pointer to the type of l, and yields
\* `*ptr = *ptr op r` with op the binary operator of the token; evaluated
\* with l holding a and r worth b, its value is a op b, and so is l
\* afterwards.
C5_CompoundAssign ==
  (pc = "done" /\ input.desc[1] = "compound") =>
    LET e     == BodyExpr(ret)
        lvars == st.vecs[ret.funcs[1].lvars]
        l     == ParamVar(st, ret, input.desc[2])
        op    == CompoundKind[input.desc[3]]
        ptr   == lvars[3]
    IN /\ Len(lvars) = 3
       /\ st.vars[ptr].name = ".tmp"
       /\ st.types[st.vars[ptr].ty].ty = "PTR"
       /\ st.types[st.vars[ptr].ty].ptr_to = st.vars[l].ty
       /\ e.op = "ND_STMT_EXPR"
       /\ Len(e.stmts) = 1
       /\ IsAssign(e.stmts[1])
       /\ IsVarRef(e.stmts[1].expr.lhs, ptr)
       /\ e.stmts[1].expr.rhs.op = "ND_ADDR"
       /\ IsVarRef(e.stmts[1].expr.rhs.expr, l)
       /\ e.expr.op = "="
       /\ IsDerefOf(e.expr.lhs, ptr)
       /\ e.expr.rhs.op = op
       /\ IsDerefOf(e.expr.rhs.lhs, ptr)
       /\ \A v \in Values, w \in Values :
            LET a == OperandValue(input.desc[2], v, w)
                b == OperandValue(input.desc[4], v, w)
                r == Eval(e, Memory(st, v, w))
            IN /\ r.v = BinaryValue(op, a, b)
               /\ r.m.mem[l] = BinaryValue(op, a, b)

\* The node is the lvalue of the Var l in the given form.
IsOperand(node, form, l) ==
  IF form = "deref"
  THEN /\ node.op = "ND_DEREF"
       /\ node.expr.op = "ND_ADDR"
       /\ IsVarRef(node.expr.expr, l)
  ELSE IsVarRef(node, l)

RECURSIVE TypeView(_, _)
\* A type as its fields, a type it refers to being given by its own view.
TypeView(s, ty) ==
  IF ty = NULL THEN <<>>
  ELSE LET t  == s.types[ty]
           ms == IF t.members = NULL THEN [keys |-> <<>>, vals |-> <<>>]
                 ELSE s.maps[t.members]
       IN <<t.ty, t.size, t.align, t.len, t.offset,
            TypeView(s, t.ptr_to), TypeView(s, t.ary_of), TypeView(s, t.returning),
            ms.keys, [i \in 1..Len(ms.vals) |-> TypeView(s, ms.vals[i])]>>

\* The type ty is a type and is made like the type of the Var l.
IsTypeOf(s, ty, l) == ty # NULL /\ TypeView(s, ty) = TypeView(s, s.vars[l].ty)

\* C6: `e++` (delta 1) and `e--` (delta -1), e an lvalue of the parameter l
\* of type T, append two fresh temporaries to the function's local list,
\* first ptr of type pointer to T, then old of type T, and give a statement
\* expression with the effects ptr = &e; old = *ptr; *ptr = *ptr + delta,
\* in this order, and the value old; evaluated with l holding v its value
\* is v, l holds v + delta afterwards, the other parameter is unchanged,
\* and e is evaluated once.
C6_PostfixIncDec ==
  (pc = "done" /\ input.desc[1] = "postfix") =>
    LET e     == BodyExpr(ret)
        lvars == st.vecs[ret.funcs[1].lvars]
        l     == ParamVar(st, ret, input.desc[2])
        delta == IF input.desc[3] = "++" THEN 1 ELSE -1
        ptr   == lvars[3]
        old   == lvars[4]
    IN /\ Len(lvars) = 4
       /\ Cardinality({lvars[i] : i \in 1..4}) = 4
       /\ st.vars[ptr].name = ".tmp"
       /\ st.vars[ptr].is_local
       /\ st.vars[ptr].ty # NULL
       /\ st.types[st.vars[ptr].ty].ty = "PTR"
       /\ IsTypeOf(st, st.types[st.vars[ptr].ty].ptr_to, l)
       /\ st.vars[old].name = ".tmp"
       /\ st.vars[old].is_local
       /\ IsTypeOf(st, st.vars[old].ty, l)
       /\ e.op = "ND_STMT_EXPR"
       /\ Len(e.stmts) = 3
       /\ \A i \in 1..3 : IsAssign(e.stmts[i])
       /\ IsVarRef(e.stmts[1].expr.lhs, ptr)
       /\ e.stmts[1].expr.rhs.op = "ND_ADDR"
       /\ IsOperand(e.stmts[1].expr.rhs.expr, input.desc[4], l)
       /\ IsVarRef(e.stmts[2].expr.lhs, old)
       /\ IsDerefOf(e.stmts[2].expr.rhs, ptr)
       /\ IsDerefOf(e.stmts[3].expr.lhs, ptr)
       /\ e.stmts[3].expr.rhs.op = "+"
       /\ IsDerefOf(e.stmts[3].expr.rhs.lhs, ptr)
       /\ e.stmts[3].expr.rhs.rhs.op = "ND_NUM"
       /\ e.stmts[3].expr.rhs.rhs.val = delta
       /\ IsVarRef(e.expr, old)
       /\ \A v \in Values, w \in Values :
            LET a == OperandValue(input.desc[2], v, w)
                r == Eval(e, Memory(st, v, w))
            IN /\ r.v = a
               /\ r.m.mem[l] = a + delta
               /\ \A p \in ParamNames \ {input.desc[2]} :
                    r.m.mem[ParamVar(st, ret, p)] = OperandValue(p, v, w)
               /\ TimesSeen(r.m, e.stmts[1].expr.rhs.expr) = 1

(* Grouping.  The level of an operator is its place in the cascade, the    *)
(* comma lowest; an operand has the highest level.                         *)

WordLevel ==
  [w \in ChainWordsSet |->
     CASE w = "," -> 1
       [] w = "=" -> 2
       [] w = "?" -> 3
       [] w = "||" -> 4
       [] w = "&&" -> 5
       [] w = "|" -> 6
       [] w = "^" -> 7
       [] w = "&" -> 8
       [] w \in {"==", "!="} -> 9
       [] w \in {"<", ">", "<=", ">="} -> 10
       [] w \in {"<<", ">>"} -> 11
       [] w \in {"+", "-"} -> 12
       [] w \in {"*", "/", "%"} -> 13]

OperandLevel == WordLevel["*"] + 1

\* A relational node made from `>` or `>=`: its token is the operator.
Swapped(node) == node.op \in {"<", "ND_LE"} /\ node.token.ty \in {">", "TK_GE"}

\* The operator word a node was made from.
NodeWord(node) ==
  CASE node.op = "<"         -> IF Swapped(node) THEN ">" ELSE "<"
    [] node.op = "ND_LE"     -> IF Swapped(node) THEN ">=" ELSE "<="
    [] node.op = "ND_SHL"    -> "<<"
    [] node.op = "ND_SHR"    -> ">>"
    [] node.op = "ND_EQ"     -> "=="
    [] node.op = "ND_NE"     -> "!="
    [] node.op = "ND_LOGAND" -> "&&"
    [] node.op = "ND_LOGOR"  -> "||"
    [] OTHER                 -> node.op

NodeLevel(node) == IF node.op = "ND_NUM" THEN OperandLevel ELSE WordLevel[NodeWord(node)]

\* The operand of a binary node that stands left (right) in the source.
SourceLeft(node) == IF Swapped(node) THEN node.rhs ELSE node.lhs
SourceRight(node) == IF Swapped(node) THEN node.lhs ELSE node.rhs

RECURSIVE SourceOf(_)
\* The words the tree was parsed from.
SourceOf(node) ==
  CASE node.op = "ND_NUM" -> <<DigitWord[node.val]>>
    [] node.op = "?" ->
         SourceOf(node.cond) \o <<"?">> \o SourceOf(node.then) \o <<":">> \o SourceOf(node.els)
    [] OTHER -> SourceOf(SourceLeft(node)) \o <<NodeWord(node)>> \o SourceOf(SourceRight(node))

RECURSIVE Grouped(_)
\* Every node's operands are of the levels the cascade gives them: a
\* left-associative operator has a left operand of its own level or
\* tighter and a tighter right operand; assignment and comma have a
\* tighter left operand and a right operand of their own level or tighter;
\* the condition of `?:` is tighter and its else branch is of the level of
\* `?:` or tighter.
Grouped(node) ==
  CASE node.op = "ND_NUM" -> TRUE
    [] node.op = "?" ->
         /\ NodeLevel(node.cond) > NodeLevel(node)
         /\ NodeLevel(node.els) >= NodeLevel(node)
         /\ Grouped(node.cond) /\ Grouped(node.then) /\ Grouped(node.els)
    [] node.op \in {"=", ","} ->
         /\ NodeLevel(node.lhs) > NodeLevel(node)
         /\ NodeLevel(node.rhs) >= NodeLevel(node)
         /\ Grouped(node.lhs) /\ Grouped(node.rhs)
    [] OTHER ->
         /\ NodeLevel(SourceLeft(node)) >= NodeLevel(node)
         /\ NodeLevel(SourceRight(node)) > NodeLevel(node)
         /\ Grouped(node.lhs) /\ Grouped(node.rhs)

RECURSIVE NodeKinds(_)
\* The kinds of the nodes of a tree.
NodeKinds(node) ==
  CASE node.op = "ND_NUM" -> {"ND_NUM"}
    [] node.op = "?" ->
         {"?"} \cup NodeKinds(node.cond) \cup NodeKinds(node.then) \cup NodeKinds(node.els)
    [] OTHER -> {node.op} \cup NodeKinds(node.lhs) \cup NodeKinds(node.rhs)

\* C10: every chain of operands and operators is accepted, and its tree is
\* the one of the cascade: read in source order, with the operands of a
\* node made from `>` or `>=` exchanged, it gives the words of the chain;
\* every node's operands are grouped by level and associativity; and `>`
\* and `>=` give the nodes of `<` and `<=`, no node being of a kind of its
\* own for them.
C10_Grouping ==
  /\ (pc = "exit" /\ input.desc # <<>>) => input.desc[1] # "chain"
  /\ (pc = "done" /\ input.desc[1] = "chain") =>
       LET e == BodyExpr(ret)
       IN /\ SourceOf(e) = ChainWords(Tail(input.desc), 1)
          /\ Grouped(e)
          /\ NodeKinds(e) \subseteq
               {"ND_NUM", "?", ",", "=", "ND_LOGOR", "ND_LOGAND", "|", "^", "&", "ND_EQ",
                "ND_NE", "<", "ND_LE", "ND_SHL", "ND_SHR", "+", "-", "*", "/", "%"}

\* `1 + 2 * 3 > 4` has been parsed as `4 < (1 + (2 * 3))`.
C10_Witness ==
  /\ pc = "done"
  /\ input.desc = <<"chain", "+", "*", ">">>
  /\ BodyExpr(ret).op = "<"
  /\ BodyExpr(ret).lhs.op = "ND_NUM"
  /\ BodyExpr(ret).lhs.val = 4
  /\ BodyExpr(ret).rhs.op = "+"
  /\ BodyExpr(ret).rhs.rhs.op = "*"

---------------------------------------------------------------------------
(* Repeated calls of parse() in one process.  A program is described by    *)
(* the kinds of its top-level items, up to MaxItems of them; the item at   *)
(* position i declares the name ItemName[i].  After a call has returned,   *)
(* parse() may be called again, up to MaxCalls calls in all; st is the     *)
(* process's memory and is carried from call to call.                      *)

MaxItems == 2
MaxCalls == 2

ItemKinds == {"gvar", "lit", "lits", "loop", "struct"}
ItemName == <<"f", "g", "h", "k">>

ItemWords(kind, i) ==
  CASE kind = "gvar"   -> <<"int", ItemName[i], ";">>
    [] kind = "lit"    -> <<"int", ItemName[i], "(", ")", "{", "\"a\"", ";", "}">>
    [] kind = "lits"   -> <<"int", ItemName[i], "(", ")", "{", "\"a\"", ";", "\"bc\"", ";", "}">>
    [] kind = "loop"   -> <<"int", ItemName[i], "(", "int", "x", ")", "{", "int", "z", ";",
                            "while", "(", "x", ")", "break", ";", "}">>
    [] kind = "struct" -> <<"struct", "S", "{", "char", "c", ";", "int", "m", ";", "}",
                            ItemName[i], ";">>

RECURSIVE ItemsWords(_, _)
ItemsWords(kinds, i) ==
  IF kinds = <<>> THEN <<>> ELSE ItemWords(Head(kinds), i) \o ItemsWords(Tail(kinds), i + 1)

RepeatDescs == UNION {[1..k -> ItemKinds] : k \in 1..MaxItems}

\* A later call of parse() in the process.
ParseAgain(words, desc) ==
  /\ pc = "done"
  /\ ghost.calls < MaxCalls
  /\ st' = parse_begin(st, Lex(words))
  /\ pc' = "parsing"
  /\ input' = [words |-> words, desc |-> desc]
  /\ ghost' = [ghost EXCEPT !.calls = @ + 1]
  /\ UNCHANGED ret

NextRepeat ==
  \/ \E d \in RepeatDescs : ParseCall(ItemsWords(d, 1), d)
  \/ \E d \in RepeatDescs : ParseAgain(ItemsWords(d, 1), d)
  \/ Toplevel
  \/ ParseReturn

SpecRepeat == InitParse /\ [][NextRepeat]_vars

\* parse(tokens) as the first call of a process.
FirstCall(F(_, _), words) == F(InitSt, Lex(words))

VarView(s, var) ==
  [name |-> s.vars[var].name, is_local |-> s.vars[var].is_local,
   data |-> s.vars[var].data, ty |-> TypeView(s, s.vars[var].ty)]

\* The Program: its global Vars, and the name and the local Vars of each
\* of its functions.
ProgramView(s, prog) ==
  [gvars |-> [i \in 1..Len(prog.gvars) |-> VarView(s, prog.gvars[i])],
   funcs |-> [f \in 1..Len(prog.funcs) |->
                [name  |-> prog.funcs[f].name,
                 lvars |-> [i \in 1..Len(s.vecs[prog.funcs[f].lvars]) |->
                              VarView(s, s.vecs[prog.funcs[f].lvars][i])]]]]

\* C9: every call of parse() starts with the cursor at the first token, a
\* scope chain of one empty scope, the loop and switch stacks and the local
\* list as they are when the process starts, and the string label counter
\* at its first value; and the Program a call returns is the Program the
\* same tokens give as the first call of a process.
C9_RepeatedParse ==
  /\ (pc = "parsing" /\ st.pos = 0) =>
       /\ st.envs[st.env].prev = NULL
       /\ st.maps[st.envs[st.env].vars].keys = <<>>
       /\ st.maps[st.envs[st.env].typedefs].keys = <<>>
       /\ st.maps[st.envs[st.env].tags].keys = <<>>
       /\ st.breaks = InitSt.breaks
       /\ st.continues = InitSt.continues
       /\ st.switches = InitSt.switches
       /\ st.lvars = InitSt.lvars
       /\ st.nlabel = InitSt.nlabel
  /\ pc = "done" =>
       LET first == FirstCall(parse, input.words)
       IN ProgramView(st, ret) = ProgramView(first, first.prog)

---------------------------------------------------------------------------
(* Statement expressions.  Every input is                                  *)
(* `int f ( int x ) { ( { S1 .. Sk } ) ; }`, described by the kinds of the *)
(* statements S1 .. Sk, k up to MaxStmts; the expression statement at      *)
(* position i is `i ;`.                                                    *)

MaxStmts == 2

StmtKinds == {"expr", "decl", "declinit", "if", "while", "do", "return", "null", "block"}

KindWords(kind, i) ==
  CASE kind = "expr"     -> <<DigitWord[i], ";">>
    [] kind = "decl"     -> <<"int", "z", ";">>
    [] kind = "declinit" -> <<"int", "z", "=", "3", ";">>
    [] kind = "if"       -> <<"if", "(", "x", ")", "x", ";">>
    [] kind = "while"    -> <<"while", "(", "x", ")", "x", ";">>
    [] kind = "do"       -> <<"do", "x", ";", "while", "(", "x", ")", ";">>
    [] kind = "return"   -> <<"return", "x", ";">>
    [] kind = "null"     -> <<";">>
    [] kind = "block"    -> <<"{", "x", ";", "}">>

RECURSIVE KindsWords(_, _)
KindsWords(kinds, i) ==
  IF kinds = <<>> THEN <<>> ELSE KindWords(Head(kinds), i) \o KindsWords(Tail(kinds), i + 1)

StmtExprWords(kinds) ==
  <<"int", "f", "(", "int", "x", ")", "{", "(", "{">> \o KindsWords(kinds, 1)
    \o <<"}", ")", ";", "}">>

StmtExprDescs == UNION {[1..k -> StmtKinds] : k \in 0..MaxStmts}

NextStmtExpr ==
  \/ \E d \in StmtExprDescs : ParseCall(StmtExprWords(d), d)
  \/ Toplevel
  \/ ParseReturn

SpecStmtExpr == InitParse /\ [][NextStmtExpr]_vars

\* The node kind of a statement of the given kind.
KindOp ==
  [k \in StmtKinds |->
     CASE k = "expr" -> "ND_EXPR_STMT" [] k = "decl" -> "ND_NULL"
       [] k = "declinit" -> "ND_EXPR_STMT" [] k = "if" -> "ND_IF"
       [] k = "while" -> "ND_FOR" [] k = "do" -> "ND_DO_WHILE"
       [] k = "return" -> "ND_RETURN" [] k = "null" -> "ND_NULL"
       [] k = "block" -> "ND_COMP_STMT"]

\* The node is the expression statement `i ;`.
IsExprStmt(node, i) ==
  node.op = "ND_EXPR_STMT" /\ node.expr.op = "ND_NUM" /\ node.expr.val = i

\* C7: `({ S1 .. Sk })` is accepted exactly when k > 0 and Sk is a bare
\* expression statement, every other block ends the parse in a fatal
\* error; when accepted, the node's value is the expression of Sk and its
\* statements are S1 .. Sk-1 in order.
C7_StmtExprFinal ==
  LET kinds == input.desc
      k     == Len(kinds)
  IN /\ pc = "done" => (k > 0 /\ kinds[k] = "expr")
     /\ pc = "exit" => (k = 0 \/ kinds[k] # "expr")
     /\ pc = "done" =>
          LET e == BodyExpr(ret)
          IN /\ e.op = "ND_STMT_EXPR"
             /\ e.expr.op = "ND_NUM"
             /\ e.expr.val = k
             /\ Len(e.stmts) = k - 1
             /\ \A i \in 1..(k - 1) :
                  /\ e.stmts[i].op = KindOp[kinds[i]]
                  /\ kinds[i] = "expr" => IsExprStmt(e.stmts[i], i)

---------------------------------------------------------------------------
(* Struct tags that refer to themselves and to each other.  A program      *)
(* defines `struct S` with up to MaxTagMembers members, each an int or a   *)
(* pointer to `struct S` or to `struct T`; the definition stands alone,    *)
(* or follows a pointer to `struct S` declared before it, or is followed   *)
(* by the definition of `struct T`, which points back to `struct S`.  A    *)
(* pointer is named after the tag it is declared with: PtrName(tag, i).    *)

MaxTagMembers == 3

Tags == {"S", "T"}
TagShapes == {"alone", "mentioned", "mutual"}
TagMemberKinds == {"int"} \cup Tags

PtrName(tag, i) == "p" \o tag \o ToString(i)

\* The tag a pointer's name was declared with.
PtrTag == [n \in {PtrName(tag, i) : tag \in Tags, i \in 0..MaxTagMembers} |->
             CHOOSE tag \in Tags : \E i \in 0..MaxTagMembers : n = PtrName(tag, i)]

TagMemberWords(kind, i) ==
  IF kind = "int" THEN <<"int", "m" \o ToString(i), ";">>
  ELSE <<"struct", kind, "*", PtrName(kind, i), ";">>

RECURSIVE TagBodyWords(_, _)
TagBodyWords(kinds, i) ==
  IF i > Len(kinds) THEN <<>>
  ELSE TagMemberWords(kinds[i], i) \o TagBodyWords(kinds, i + 1)

\* desc is the shape followed by the kinds of the members of struct S.
TagWords(desc) ==
  LET def == <<"struct", "S", "{">> \o TagBodyWords(Tail(desc), 1) \o <<"}", "x", ";">>
  IN CASE desc[1] = "alone"     -> def
       [] desc[1] = "mentioned" -> <<"struct", "S", "*", PtrName("S", 0), ";">> \o def
       [] desc[1] = "mutual"    ->
            def \o <<"struct", "T", "{", "struct", "S", "*", PtrName("S", 0), ";",
                     "int", "a", ";", "}", "y", ";">>

TagDescs ==
  {<<shape>> \o kinds : shape \in TagShapes,
                        kinds \in UNION {[1..k -> TagMemberKinds] : k \in 1..MaxTagMembers}}

\* The tags the program of desc defines with a body.
DefinedTags(desc) == IF desc[1] = "mutual" THEN {"S", "T"} ELSE {"S"}

NextTag ==
  \/ \E d \in TagDescs : ParseCall(TagWords(d), d)
  \/ Toplevel
  \/ ParseReturn

SpecTag == InitParse /\ [][NextTag]_vars

\* The declaration of name with type ty: if name is a pointer's, ty is a
\* pointer to the struct type that the pointer's tag denotes.
PointsToTag(s, name, ty) ==
  name \in DOMAIN PtrTag =>
    /\ s.types[ty].ty = "PTR"
    /\ s.types[ty].ptr_to = find_tag(s, PtrTag[name])

\* C11: in a returned Program every tag that was given a body denotes a
\* struct type with that body, and every pointer declared as `struct N *`,
\* as a struct member (inside the body of struct N itself or of another
\* struct) or as a variable (before or after the body of N), points to the
\* one type the tag N denotes.
C11_TagIdentity ==
  pc = "done" =>
    /\ \A tag \in DefinedTags(input.desc) :
         find_tag(st, tag) \in StructTypes(st)
    /\ \A i \in StructTypes(st) :
         \A k \in 1..Len(MembersOf(st, i)) :
           PointsToTag(st, st.maps[st.types[i].members].keys[k], MembersOf(st, i)[k])
    /\ \A g \in 1..Len(st.prog.gvars) :
         PointsToTag(st, st.vars[st.prog.gvars[g]].name, st.vars[st.prog.gvars[g]].ty)
---------------------------------------------------------------------------
(* Declarations in an inner scope.  A program declares the name N at file  *)
(* scope, as a variable, a typedef or a struct tag, and then defines a     *)
(* function in whose body, or in a block nested up to MaxScopeNest deep    *)
(* in it, N is declared again, as a variable, a typedef or a struct tag    *)
(* with a body.  desc is <<outer kind, outer shape, inner kind, inner      *)
(* shape, nesting depth>>; the shape selects the type of a variable or     *)
(* typedef and the members of a struct.                                    *)

MaxScopeNest == 2

ScopeKinds == {"var", "typedef", "tag"}
ScopeShapes == {"int", "char", "ptr"}
ScopeDepths == [d \in {"0", "1", "2"} |-> IF d = "0" THEN 0 ELSE IF d = "1" THEN 1 ELSE 2]

\* The declaration of N of the given kind and shape; a struct declares the
\* variable var as well.
ScopeDeclWords(kind, shape, var) ==
  LET ty   == CASE shape = "int"  -> <<"int">>
                [] shape = "char" -> <<"char">>
                [] shape = "ptr"  -> <<"int", "*">>
      body == CASE shape = "int"  -> <<"int", "a", ";", "char", "b", ";">>
                [] shape = "char" -> <<"char", "a", ";">>
                [] shape = "ptr"  -> <<"char", "a", ";", "int", "*", "b", ";">>
  IN CASE kind = "var"     -> ty \o <<"N", ";">>
       [] kind = "typedef" -> <<"typedef">> \o ty \o <<"N", ";">>
       [] kind = "tag"     -> <<"struct", "N", "{">> \o body \o <<"}", var, ";">>

RECURSIVE ScopeBlockWords(_, _)
\* words inside depth nested blocks.
ScopeBlockWords(words, depth) ==
  IF depth = 0 THEN words
  ELSE <<"{">> \o ScopeBlockWords(words, depth - 1) \o <<"}">>

ScopeWords(desc) ==
  ScopeDeclWords(desc[1], desc[2], "x")
    \o <<"int", "f", "(", ")", "{">>
    \o ScopeBlockWords(ScopeDeclWords(desc[3], desc[4], "y"), ScopeDepths[desc[5]])
    \o <<"}">>

ScopeDescs ==
  {<<k1, s1, k2, s2, d>> : k1 \in ScopeKinds, s1 \in ScopeShapes, k2 \in ScopeKinds,
                           s2 \in ScopeShapes,
                           d \in {d \in DOMAIN ScopeDepths : ScopeDepths[d] <= MaxScopeNest}}

NextScope ==
  \/ \E d \in ScopeDescs : ParseCall(ScopeWords(d), d)
  \/ Toplevel
  \/ ParseReturn

SpecScope == InitParse /\ [][NextScope]_vars

\* The state after the first top-level declaration of a program: the state
\* before the function's frame is pushed.
AfterFirst(F(_, _, _), words) == F("toplevel", parse_begin(InitSt, Lex(words)), NULL)

\* What N denotes in the scope chain of s, in the mapping named by field.
Binding(s, field) == find_in(s, s.env, field, "N")

\* The contents of the entity e of the mapping named by field.
Contents(s, field, e) ==
  IF e = NULL THEN <<>>
  ELSE IF field = "vars" THEN VarView(s, e) ELSE TypeView(s, e)

\* C12: once the function, and with it every inner frame, has been left,
\* N denotes at file scope, as a variable, as a typedef and as a struct
\* tag, the same entity as before the function (or nothing, if it denoted
\* nothing), and the entity has the same contents: name and type of a
\* variable; kind, size, alignment, members and member offsets of a type.
C12_OuterUnchanged ==
  (pc \in {"parsing", "done"} /\ is_eof(st)) =>
    LET before == AfterFirst(call, input.words)
    IN \A field \in {"vars", "typedefs", "tags"} :
         /\ Binding(st, field) = Binding(before, field)
         /\ Contents(st, field, Binding(st, field))
              = Contents(before, field, Binding(before, field))
=============================================================================
